---- MODULE Spec2Model ----
(***************************************************************************)
(* State-machine model of the offline-sync plugin: the replica outbound    *)
(* queue (queue-manager), the version tracker, the conflict resolver, the  *)
(* sync service (applyChange, pushToMaster, pullFromMaster), the master's  *)
(* POST /sync/push handler, the document middleware with its               *)
(* loop-prevention flags, and the bus consumer that sets them.             *)
(*                                                                         *)
(* Every database access of the code is an await, so every handler is cut  *)
(* into one step per database access; handlers of different requests       *)
(* interleave at these steps.  A process p of Procs is one in-flight       *)
(* request, timer callback or hook; pc[p] is its position, loc[p] its      *)
(* local variables, and loc[p].stack the return positions of the calls it  *)
(* is inside of.                                                           *)
(***************************************************************************)
EXTENDS Integers, Sequences, FiniteSets, TLC

\* ------------------------------------------------------------------ bounds
MaxRows == 3        \* rows ever inserted into one table (ids 1..MaxRows)
MaxVersion == 3     \* largest syncVersion an increment may write
MaxEdits == 2       \* document actions users perform
MaxPushes == 1      \* pushes the master answers
MaxFails == 1       \* pushes that fail
MaxRequests == 2    \* requests a peer sends (pushes to the master, pull answers)
MaxBatch == 1       \* changes of one request
MaxDepth == 2       \* nesting depth of a JSON value
MaxItems == 1       \* items of a JSON array
MaxTicks == 3       \* times the clock advances
MaxSeconds == 3     \* seconds that pass on the replica
SecondMs == 1000    \* milliseconds of a second
MaxFlaps == 2       \* times the bus becomes reachable or unreachable
MaxPending == 1     \* edits waiting in the replica's queue
MaxTokens == 2      \* tokens of a string
MaxBase == 2        \* characters of a base URL
MaxPath == 2        \* characters of an object path
MaxName == 3        \* characters of an object name
MaxWireEdits == 3   \* edits of the admin that reach the bus middleware
MaxMs == 1          \* milliseconds that pass
MaxDrops == 2       \* changes of the producer's connection
MaxStamp == 3       \* milliseconds of the master's clock
MaxChecks == 4      \* checks of the connectivity tracker
MaxDetectVersion == 2   \* syncVersions handed to detectConflict
MaxFileBatch == 2   \* file records of a batch
MaxFileCalls == 2   \* batches of file records received
MaxResolves == 2      \* calls of resolveConflict
MaxUrlDepth == 1    \* nesting depth of a payload with URLs
TickMs == 150000    \* milliseconds the clock advances by at a time

\* ------------------------------------------------------- program constants
MaxRetries == 3     \* pluginConfig.retryAttempts || 3
DefaultThreshold == 300000   \* session.onlineThreshold || 300000

Entities == {"e1"}           \* entity ids of the one tracked content type
Procs == {"p1", "p2"}        \* concurrently running handlers
SerialProcs == {"p1"}        \* the handlers where one runs at a time

\* A payload is a set of <<field, value>> pairs; Null stands for null (the
\* data of a delete, the result of a findOne that finds nothing).
Null == {<<"null", "null">>}
Payloads == {{<<"title", "A">>}, {<<"title", "B">>}}

Keys(d) == IF d = Null THEN {} ELSE {kv[1] : kv \in d}
Val(d, k) == (CHOOSE kv \in d : kv[1] = k)[2]

VARIABLES
  mode,        \* "master" | "replica": fixed at startup
  masterUp,    \* whether the link to the peer is up now: an HTTP request to
               \* the master succeeds, the bus producer is connected
  bus,         \* the master's edit log, what it published to ships and its
               \* broadcast queue
  entity,      \* the CMS: entity id -> payload, Null when it does not exist
  meta,        \* sync-metadata table: a set of rows
  queue,       \* sync-queue table (replica outbound queue): a set of rows
  conflicts,   \* conflict-log table: a set of rows
  nextId,      \* next auto-increment id of each table
  flags,       \* the process-wide loop-prevention flags
  count,       \* how many edits were made, pushes answered, pushes failed and
               \* requests or messages received
  pc,          \* position of every process
  loc,         \* local variables of every process
  scen,        \* history: per entity, how far the scenario create-then-update got
  lastVer,     \* history: per entity, the syncVersion last written for it
  incs,        \* history: per entity, the incrementVersion calls completed
  sent,        \* history: the queued changes a POST delivered to the master
  dlv,         \* history: a request delivered once, then once more
  outcome,     \* history: how the last document call came back to its caller
  calc,        \* the function under evaluation: its argument and its result
  sessions,    \* sync-session table (the master's ship tracker): a set of rows
  clock,       \* the time, in milliseconds
  report,      \* history: the online status last reported, and of what
  conn,        \* the retry chain of a bus connection (retryConnection)
  shut,        \* graceful shutdown: the flag, and whether the cleanup has run
  net,         \* the bus: reachable, producer connected, the monitor's state
  timers,      \* the timers of the replica's bootstrap
  push,        \* executePush, autoPushCheck and the reconnect callback
  started,     \* history: the kind of the operation started last
  media,       \* media sync: configuration, the objects of the two storages,
               \* the CMS file rows, and (history) the call completed last
  wire,        \* the bus messages of the middleware: Date.now(), the producer,
               \* the master's broadcast queue, the replica's outbound queue
               \* and (history) the messages published
  serve,       \* GET /sync/pull: (history) when the master last modified an
               \* entity, the timestamp asked for and the changes returned
  monitor,     \* the connectivity tracker: masterUrl configured, its state,
               \* and (history) the probe and the result of the last check
  res          \* resolveConflict: the entities it created under a new id and
               \* (history) its calls, its CMS writes and the call completed last

vars == <<mode, masterUp, bus, entity, meta, queue, conflicts, nextId, flags, count,
          pc, loc, scen, lastVer, incs, sent, dlv, outcome, calc, sessions, clock,
          report, conn, shut, net, timers, push, started, media,
          wire, serve, monitor, res>>

shipVars == <<sessions, clock, report>>
bootVars == <<conn, shut, net, timers, push, started>>
sideVars == <<calc, shipVars, bootVars, media, wire, serve, monitor, res>>
linkVars == <<mode, masterUp, bus>>
envVars == <<linkVars, count>>
dbVars == <<entity, meta, queue, conflicts, nextId>>
histVars == <<scen, lastVer, incs, sent, dlv, outcome, sideVars>>

\* --------------------------------------------------------------- JSON values
\* A JSON value is null, a string, an object (a set of <<key, value>> pairs
\* with distinct keys) or an array (a sequence of values).
JNull == [null |-> "null"]
JStr(t) == [str |-> t]
JObj(pairs) == [obj |-> pairs]
JArr(items) == [arr |-> items]

IsObj(x) == DOMAIN x = {"obj"}
IsArr(x) == DOMAIN x = {"arr"}

\* No function is under evaluation.
NoCalc == [fn |-> "none", arg |-> JNull, res |-> JNull, done |-> FALSE]

\* ------------------------------------------------------------ process state
IdleLoc ==
  [h |-> "none", e |-> "e1", op |-> "none", d |-> Null, v |-> 0, by |-> "none",
   src |-> "none", x |-> 0, xv |-> 0, le |-> Null, lv |-> 0, cv |-> 0, cf |-> {},
   snap |-> {}, upd |-> {}, todo |-> <<>>, n |-> 0, res |-> Null, cms |-> Null,
   fail |-> FALSE, ship |-> "none", on |-> FALSE, at |-> 0, seen |-> 0,
   url |-> <<>>, path |-> <<>>, map |-> {},
   stack |-> <<>>]

\* Call a function whose first step is `first`, returning to `ret`.
Call(p, first, ret, l) ==
  /\ pc' = [pc EXCEPT ![p] = first]
  /\ loc' = [loc EXCEPT ![p] = [l EXCEPT !.stack = <<ret>> \o l.stack]]

\* Return from the function the process is in: its own locals (the row it
\* read) are gone, the result (loc.v) stays.
Return(p, l) ==
  IF l.stack = <<>>
  THEN /\ pc' = [pc EXCEPT ![p] = "idle"]
       /\ loc' = [loc EXCEPT ![p] = IdleLoc]
  ELSE /\ pc' = [pc EXCEPT ![p] = Head(l.stack)]
       /\ loc' = [loc EXCEPT ![p] = [l EXCEPT !.stack = Tail(l.stack), !.x = 0, !.xv = 0]]

Goto(p, label, l) ==
  /\ pc' = [pc EXCEPT ![p] = label]
  /\ loc' = [loc EXCEPT ![p] = l]

\* The history of versions written: lastVer[e] follows the syncVersion of
\* every row written for e and keeps it when the rows are deleted.
WriteMeta(newMeta, e, version) ==
  /\ meta' = newMeta
  /\ lastVer' = [lastVer EXCEPT ![e] = version]

\* ------------------------------------------------------------ version tracker
MetaRows(e) == {m \in meta : m.entityId = e}

NewMetaRow(id, e, by) ==
  [id |-> id, entityId |-> e, syncVersion |-> 1, modifiedByLocation |-> by,
   syncStatus |-> "pending", lastSyncedAt |-> "null", conflictFlag |-> FALSE]

BumpedMetaRow(m, newVersion, by) ==
  [m EXCEPT !.syncVersion = newVersion, !.modifiedByLocation = by,
            !.syncStatus = "pending"]

\* incrementVersion, first await: findOne({contentType, entityId}).
\* loc.e is the entity, loc.by the location argument.
IncFind(p) ==
  /\ pc[p] = "inc_find"
  /\ IF MetaRows(loc[p].e) = {}
     THEN Goto(p, "inc_write", [loc[p] EXCEPT !.x = 0, !.xv = 0])
     ELSE \E m \in MetaRows(loc[p].e) :
            Goto(p, "inc_write", [loc[p] EXCEPT !.x = m.id, !.xv = m.syncVersion])
  /\ UNCHANGED <<envVars, dbVars, flags, histVars>>

\* incrementVersion, second await: create the row with version 1, or write
\* the version read at the first await plus one.  The result is in loc.v.
IncWrite(p) ==
  /\ pc[p] = "inc_write"
  /\ LET l == loc[p] IN
     IF l.x = 0
     THEN /\ nextId.meta <= MaxRows
          /\ WriteMeta(meta \cup {NewMetaRow(nextId.meta, l.e, l.by)}, l.e, 1)
          /\ nextId' = [nextId EXCEPT !.meta = @ + 1]
          /\ Return(p, [l EXCEPT !.v = 1])
     ELSE /\ IF \E m \in meta : m.id = l.x
             THEN LET m == CHOOSE r \in meta : r.id = l.x IN
                  WriteMeta((meta \ {m}) \cup {BumpedMetaRow(m, l.xv + 1, l.by)},
                            m.entityId, l.xv + 1)
             ELSE UNCHANGED <<meta, lastVer>>
          /\ UNCHANGED nextId
          /\ Return(p, [l EXCEPT !.v = l.xv + 1])
  /\ incs' = [incs EXCEPT ![loc[p].e] = @ + 1]
  /\ UNCHANGED <<envVars, entity, queue, conflicts, flags, scen, sent, dlv, outcome, sideVars>>

\* ------------------------------------------------------------- queue manager
PendingRows(e) == {r \in queue : r.entityId = e /\ r.status = "pending"}

\* enqueue, the row written over an existing pending row.
UpdatedQueueRow(r, l) ==
  [r EXCEPT !.operation = l.op, !.data = l.d, !.version = l.v,
            !.location = "ship", !.retryCount = 0]

\* enqueue, the row inserted when no pending row was found.
NewQueueRow(id, l) ==
  [id |-> id, entityId |-> l.e, operation |-> l.op, data |-> l.d,
   version |-> l.v, status |-> "pending", location |-> "ship",
   retryCount |-> 0, errorMessage |-> "null", syncedAt |-> "null"]

\* enqueue, first await: findOne({contentType, entityId, status: pending}).
\* Outside replica mode enqueue returns null at once.
EnqueueFind(p) ==
  /\ pc[p] = "enq_find"
  /\ IF mode # "replica"
     THEN Return(p, loc[p])
     ELSE IF PendingRows(loc[p].e) = {}
          THEN Goto(p, "enq_write", [loc[p] EXCEPT !.x = 0])
          ELSE \E r \in PendingRows(loc[p].e) :
                 Goto(p, "enq_write", [loc[p] EXCEPT !.x = r.id])
  /\ UNCHANGED <<envVars, dbVars, flags, histVars>>

\* How far the scenario "create X, then update X, nothing else, all while
\* the master is unreachable" got for the
\* entity when a handler of operation op completes for it.
ScenAfter(s, op) ==
  IF s = "creating" /\ op = "create" THEN "created"
  ELSE IF s = "updating" /\ op = "update" THEN "updated"
  ELSE "void"

\* ... and when a handler of operation op starts for it.
ScenBegin(s, op) ==
  IF s = "none" /\ op = "create" THEN "creating"
  ELSE IF s = "created" /\ op = "update" THEN "updating"
  ELSE "void"

\* enqueue, second await: update({id: existing.id}) or create.
EnqueueWrite(p) ==
  /\ pc[p] = "enq_write"
  /\ LET l == loc[p] IN
     /\ IF l.x # 0
        THEN /\ queue' = {IF r.id = l.x THEN UpdatedQueueRow(r, l) ELSE r : r \in queue}
             /\ UNCHANGED nextId
        ELSE /\ nextId.queue <= MaxRows
             /\ queue' = queue \cup {NewQueueRow(nextId.queue, l)}
             /\ nextId' = [nextId EXCEPT !.queue = @ + 1]
     /\ scen' = IF l.h = "edit"
                THEN [scen EXCEPT ![l.e] = ScenAfter(@, l.op)]
                ELSE scen
     /\ Return(p, l)
  /\ UNCHANGED <<envVars, entity, meta, conflicts, flags, lastVer, incs, sent, dlv, outcome, sideVars>>


\* markSynced(operationId): one update({id}) of the queue row.
SyncedQueueRow(r) == [r EXCEPT !.status = "synced", !.syncedAt = "set"]

\* markFailed, the row written: retryCount is the count read at the findOne.
FailedQueueRow(r, readCount) ==
  [r EXCEPT !.status = IF readCount + 1 >= MaxRetries THEN "failed" ELSE "pending",
            !.errorMessage = "error", !.retryCount = readCount + 1]

\* markFailed, first await: findOne({id}).  loc.x is the operation id.
MarkFailedFind(p) ==
  /\ pc[p] = "mf_find"
  /\ IF \E r \in queue : r.id = loc[p].x
     THEN LET r == CHOOSE q \in queue : q.id = loc[p].x IN
          Goto(p, "mf_write", [loc[p] EXCEPT !.xv = r.retryCount])
     ELSE Return(p, loc[p])
  /\ UNCHANGED <<envVars, dbVars, flags, histVars>>

\* markFailed, second await: update({id}).
MarkFailedWrite(p) ==
  /\ pc[p] = "mf_write"
  /\ queue' = {IF r.id = loc[p].x THEN FailedQueueRow(r, loc[p].xv) ELSE r : r \in queue}
  /\ Return(p, loc[p])
  /\ UNCHANGED <<envVars, entity, meta, conflicts, nextId, flags, histVars>>

\* retryFailed selects the rows with status failed and retryCount below the cap.
RetryableRows == {r \in queue : r.status = "failed" /\ r.retryCount < MaxRetries}

RetriedQueueRow(r) == [r EXCEPT !.status = "pending", !.errorMessage = "null"]

\* retryFailed, first await: findMany.  The ids found are kept in loc.snap.
RetryFailedFind(p) ==
  /\ pc[p] = "idle"
  /\ mode = "replica"
  /\ RetryableRows # {}
  /\ Goto(p, "rf_write", [IdleLoc EXCEPT !.h = "retryFailed",
                                         !.snap = {r.id : r \in RetryableRows}])
  /\ UNCHANGED <<envVars, dbVars, flags, histVars>>

\* retryFailed, one update({id}) per row found, in the order of the ids.
RetryFailedWrite(p) ==
  /\ pc[p] = "rf_write"
  /\ LET id == CHOOSE i \in loc[p].snap : \A j \in loc[p].snap : i <= j
         rest == loc[p].snap \ {id}
     IN /\ queue' = {IF r.id = id THEN RetriedQueueRow(r) ELSE r : r \in queue}
        /\ IF rest = {}
           THEN Return(p, loc[p])
           ELSE Goto(p, "rf_write", [loc[p] EXCEPT !.snap = rest])
  /\ UNCHANGED <<envVars, entity, meta, conflicts, nextId, flags, histVars>>

\* clearSynced: one delete of the synced rows whose syncedAt is older than the
\* cutoff.  Time is not modelled: any set of synced rows may be old enough.
ClearSynced(old) ==
  /\ mode = "replica"
  /\ old # {}
  /\ \A r \in old : r.status = "synced" /\ r.syncedAt # "null"
  /\ queue' = queue \ old
  /\ UNCHANGED <<envVars, entity, meta, conflicts, nextId, flags, pc, loc, histVars>>

\* ------------------------------------------------------ document middleware
\* The CMS operation of a document action (the middleware's await next()).
\* publish leaves the document's fields as they are.
CmsApply(action, e, d) ==
  CASE action = "create"  -> entity[e] = Null /\ entity' = [entity EXCEPT ![e] = d]
    [] action = "update"  -> entity[e] # Null /\ entity' = [entity EXCEPT ![e] = d]
    [] action = "delete"  -> entity[e] # Null /\ entity' = [entity EXCEPT ![e] = Null]
    [] action = "publish" -> entity[e] # Null /\ UNCHANGED entity

\* Map action to operation.
OperationOf(action) ==
  IF action = "create" THEN "create"
  ELSE IF action = "delete" THEN "delete"
  ELSE "update"

\* --------------------------------------------------------- stripSensitiveData
SENSITIVE_FIELDS ==
  {"password", "resetPasswordToken", "confirmationToken", "registrationToken",
   "token", "secret", "apiKey"}

\* stripSensitiveData(obj): null and strings as they are, arrays item by
\* item, objects key by key: the value of a sensitive key becomes the string
\* [REDACTED], an object or array value is stripped, any other value is kept.
RECURSIVE StripSensitiveData(_)
StripSensitiveData(x) ==
  IF IsArr(x)
  THEN JArr([i \in DOMAIN x.arr |-> StripSensitiveData(x.arr[i])])
  ELSE IF IsObj(x)
       THEN JObj({<<kv[1], IF kv[1] \in SENSITIVE_FIELDS
                            THEN JStr("[REDACTED]")
                            ELSE StripSensitiveData(kv[2])>> : kv \in x.obj})
       ELSE x

\* The middleware evaluates stripSensitiveData(syncData) for the payload it
\* enqueues or publishes.
StripCall ==
  /\ calc.fn = "strip" /\ ~calc.done
  /\ calc' = [calc EXCEPT !.res = StripSensitiveData(calc.arg), !.done = TRUE]
  /\ UNCHANGED <<envVars, dbVars, flags, pc, loc, scen, lastVer, incs, sent, dlv,
                 outcome, shipVars, bootVars, media, wire, serve, monitor, res>>

\* ------------------------------------------------- media sync: URL rewriting
\* A string is a sequence of tokens: an occurrence of the base URL of the
\* master's storage (oss), one of the replica's storage (minio), or text.
UrlDepthLimit == 20     \* if (depth > 20 ...) return data

MediaConfig == [transformUrls |-> TRUE, oss |-> "A", minio |-> "B"]

IsStr(x) == DOMAIN x = {"str"}

\* data.includes(fromBaseUrl)
Includes(t, base) == \E i \in DOMAIN t : t[i] = base

\* data.replace(new RegExp(escapeRegex(fromBaseUrl), 'g'), toBaseUrl)
ReplaceAll(t, fromBaseUrl, toBaseUrl) ==
  [i \in DOMAIN t |-> IF t[i] = fromBaseUrl THEN toBaseUrl ELSE t[i]]

RECURSIVE TransformUrls(_, _, _, _)
TransformUrls(data, fromBaseUrl, toBaseUrl, depth) ==
  IF depth > UrlDepthLimit \/ data = JNull
  THEN data
  ELSE IF IsStr(data)
       THEN IF Includes(data.str, fromBaseUrl)
            THEN JStr(ReplaceAll(data.str, fromBaseUrl, toBaseUrl))
            ELSE data
       ELSE IF IsArr(data)
            THEN JArr([i \in DOMAIN data.arr |->
                        TransformUrls(data.arr[i], fromBaseUrl, toBaseUrl, depth + 1)])
            ELSE JObj({<<kv[1], TransformUrls(kv[2], fromBaseUrl, toBaseUrl, depth + 1)>> :
                        kv \in data.obj})

\* transformToReplica(data): master (oss) URLs become replica (minio) URLs.
TransformToReplica(data) ==
  IF ~MediaConfig.transformUrls
  THEN data
  ELSE TransformUrls(data, MediaConfig.oss, MediaConfig.minio, 0)

\* A rewriting towards the master that goes the way of transformToReplica.
TransformToMasterSameWay(data) == TransformToReplica(data)

\* transformToMaster(data): replica (minio) URLs become master (oss) URLs.
TransformToMaster(data) ==
  IF ~MediaConfig.transformUrls
  THEN data
  ELSE TransformUrls(data, MediaConfig.minio, MediaConfig.oss, 0)

\* A payload is rewritten for the replica ...
ToReplicaCall ==
  /\ calc.fn = "transformToReplica" /\ ~calc.done
  /\ calc' = [calc EXCEPT !.fn = "transformToMaster", !.res = TransformToReplica(calc.arg)]
  /\ UNCHANGED <<envVars, dbVars, flags, pc, loc, scen, lastVer, incs, sent, dlv,
                 outcome, shipVars, bootVars, media, wire, serve, monitor, res>>

\* ... and the result rewritten for the master.
ToMasterCall ==
  /\ calc.fn = "transformToMaster" /\ ~calc.done
  /\ calc' = [calc EXCEPT !.res = TransformToMaster(calc.res), !.done = TRUE]
  /\ UNCHANGED <<envVars, dbVars, flags, pc, loc, scen, lastVer, incs, sent, dlv,
                 outcome, shipVars, bootVars, media, wire, serve, monitor, res>>

\* What the CMS operation produces: the document as it is after the action,
\* the deleted document for a delete.
CmsResult(action, e) == IF action = "delete" THEN entity[e] ELSE entity'[e]

\* A user's document action: the middleware runs the action first
\* (const result = await next(); loc.res is result, loc.cms the observation
\* of what next() produced).
MwNext(p, action, e, d) ==
  /\ pc[p] = "idle"
  /\ count.edits < MaxEdits
  /\ count' = [count EXCEPT !.edits = @ + 1]
  /\ CmsApply(action, e, d)
  /\ scen' = [scen EXCEPT ![e] = IF masterUp THEN "void"
                                  ELSE ScenBegin(@, OperationOf(action))]
  /\ Call(p, "mw_check", "mw_ret",
          [IdleLoc EXCEPT !.h = "edit", !.e = e, !.op = OperationOf(action),
                          !.d = entity'[e], !.by = "ship",
                          !.res = CmsResult(action, e), !.cms = CmsResult(action, e)])
  /\ UNCHANGED <<linkVars, meta, queue, conflicts, nextId, flags, lastVer, incs,
               sent, dlv, outcome, sideVars>>

\* The replica branch without its check of the loop-prevention flag.
MwReplicaUnchecked(p) ==
  /\ pc[p] = "mw_check"
  /\ mode = "replica"
  /\ IF loc[p].op # "delete"
     THEN Call(p, "inc_find", "enq_find", loc[p])
     ELSE Goto(p, "enq_find", [loc[p] EXCEPT !.v = 0, !.d = Null])
  /\ UNCHANGED <<envVars, dbVars, flags, histVars>>

\* The replica branch after next(): return when the change originated from
\* the master; else increment the version (0 for a delete) and enqueue.
MwReplica(p) ==
  /\ pc[p] = "mw_check"
  /\ mode = "replica"
  /\ IF flags.fromMaster
     THEN Return(p, loc[p])
     ELSE IF loc[p].op # "delete"
          THEN Call(p, "inc_find", "enq_find", loc[p])
          ELSE Goto(p, "enq_find", [loc[p] EXCEPT !.v = 0, !.d = Null])
  /\ UNCHANGED <<envVars, dbVars, flags, histVars>>

\* The positions of the awaits inside the middleware's try blocks: the calls
\* of incrementVersion and enqueue, sendToShips and masterSyncQueue.enqueue,
\* and the master's logEdit, which follows the flag check.
MwAwaits == {"inc_find", "inc_write", "enq_find", "enq_write", "mw_send"}

AtAwait(p) ==
  /\ \E i \in 1..Len(loc[p].stack) : loc[p].stack[i] = "mw_ret"
  /\ \/ pc[p] \in MwAwaits
     \/ pc[p] = "mw_check" /\ mode = "master" /\ ~flags.fromShip

\* What is left of the call stack at the middleware's return statement.
RECURSIVE Unwound(_)
Unwound(stack) ==
  IF stack = <<>> THEN <<>>
  ELSE IF Head(stack) = "mw_ret" THEN Tail(stack)
  ELSE Unwound(Tail(stack))

\* A call awaited inside the middleware throws without having written
\* anything; the exception escapes to the caller of the document service.
MwFailUncaught(p) ==
  /\ AtAwait(p)
  /\ outcome' = [st |-> "threw", same |-> FALSE, fail |-> TRUE]
  /\ Return(p, [loc[p] EXCEPT !.stack = Unwound(@)])
  /\ UNCHANGED <<envVars, dbVars, flags, scen, lastVer, incs, sent, dlv, sideVars>>

\* A call awaited inside the middleware throws without having written
\* anything: the catch blocks log the error and the middleware goes on to
\* return result.
MwFail(p) ==
  /\ AtAwait(p)
  /\ Goto(p, "mw_ret", [loc[p] EXCEPT !.stack = Unwound(@), !.fail = TRUE,
                                      !.x = 0, !.xv = 0])
  /\ UNCHANGED <<envVars, dbVars, flags, histVars>>

\* return result.
MwReturn(p) ==
  /\ pc[p] = "mw_ret"
  /\ outcome' = [st |-> "returned", same |-> (loc[p].res = loc[p].cms), fail |-> loc[p].fail]
  /\ Return(p, loc[p])
  /\ UNCHANGED <<envVars, dbVars, flags, scen, lastVer, incs, sent, dlv, sideVars>>

\* The master branch after next(): return when the change originated from a
\* ship; else log the edit as one of the master's (masterSyncQueue.logEdit).
MwMaster(p) ==
  /\ pc[p] = "mw_check"
  /\ mode = "master"
  /\ IF flags.fromShip
     THEN /\ Return(p, loc[p])
          /\ UNCHANGED bus
     ELSE /\ bus' = [bus EXCEPT !.logged = @ \cup {[e |-> loc[p].e, op |-> loc[p].op]}]
          /\ Goto(p, "mw_send", [loc[p] EXCEPT !.d = IF loc[p].op = "delete"
                                                      THEN Null ELSE @])
  /\ UNCHANGED <<mode, masterUp, count, dbVars, flags, histVars>>

\* The message the master publishes to ships: version 0 whatever the change.
ShipMessage(l) == [e |-> l.e, op |-> l.op, d |-> l.d, v |-> 0]

\* What the master hands to masterSyncQueue.enqueue: {...safeData}, the empty
\* object for a delete.
QueuedEdit(l) == [e |-> l.e, op |-> l.op, d |-> IF l.d = Null THEN {} ELSE l.d]

\* The master branch, the last await: sendToShips(message) when the producer
\* is connected, masterSyncQueue.enqueue otherwise.
MwSend(p) ==
  /\ pc[p] = "mw_send"
  /\ bus' = IF masterUp
            THEN [bus EXCEPT !.published = @ \cup {ShipMessage(loc[p])}]
            ELSE [bus EXCEPT !.queued = @ \cup {QueuedEdit(loc[p])}]
  /\ Return(p, loc[p])
  /\ UNCHANGED <<mode, masterUp, count, dbVars, flags, histVars>>

\* ----------------------------------------------------------- bus consumer
\* The messages of the consumed topic: a change of the peer.
Messages ==
  {[e |-> e, op |-> op, d |-> d] :
     e \in Entities, op \in {"create", "update"}, d \in Payloads}
  \cup {[e |-> e, op |-> "delete", d |-> Null] : e \in Entities}

\* The loop-prevention flag of the mode: fromMaster on a replica, fromShip on
\* the master.
WithFlag(f, value) ==
  IF mode = "replica" THEN [f EXCEPT !.fromMaster = value]
  ELSE [f EXCEPT !.fromShip = value]

\* The consumer takes the next message of its topic, one message at a time,
\* and sets the loop-prevention flag for the duration of the apply.
ConsumeSet(p, msg) ==
  /\ pc[p] = "idle"
  /\ \A q \in Procs : loc[q].h # "consume"
  /\ count' = [count EXCEPT !.reqs = IF @ < MaxRequests THEN @ + 1 ELSE @]
  /\ flags' = WithFlag(flags, TRUE)
  /\ Goto(p, "cs_apply", [IdleLoc EXCEPT !.h = "consume", !.e = msg.e, !.op = msg.op,
                                         !.d = msg.d, !.by = "remote"])
  /\ UNCHANGED <<linkVars, dbVars, histVars>>

\* The apply, reduced to the CMS operation it performs through the document
\* service, whose middleware runs after it: create when the entity is absent,
\* update and delete when it is present.  loc.n counts the operations.
ConsumeApply(p) ==
  /\ pc[p] = "cs_apply"
  /\ LET l == loc[p] IN
     IF (l.op = "create" /\ entity[l.e] = Null) \/ (l.op # "create" /\ entity[l.e] # Null)
     THEN /\ CmsApply(l.op, l.e, l.d)
          /\ Call(p, "mw_check", "mw_ret",
                  [l EXCEPT !.n = @ + 1, !.stack = <<"cs_clear">> \o @,
                            !.res = CmsResult(l.op, l.e), !.cms = CmsResult(l.op, l.e)])
     ELSE /\ UNCHANGED entity
          /\ Goto(p, "cs_clear", l)
  /\ UNCHANGED <<envVars, meta, queue, conflicts, nextId, flags, histVars>>

\* After the apply the consumer clears the flag and acknowledges the message.
ConsumeClear(p) ==
  /\ pc[p] = "cs_clear"
  /\ flags' = WithFlag(flags, FALSE)
  /\ Return(p, loc[p])
  /\ UNCHANGED <<envVars, dbVars, histVars>>

\* ------------------------------------------- version tracker: detectConflict
ReservedFields ==
  {"id", "createdAt", "updatedAt", "publishedAt", "syncVersion", "lastSyncedAt",
   "modifiedByLocation", "syncStatus", "conflictFlag"}

\* detectConflict({...localEntity, syncVersion}, {...data, syncVersion}):
\* equal versions are no conflict; otherwise the fields of both sides whose
\* values differ and the fields of one side only are the conflicting fields.
DetectConflict(localData, localVersion, remoteData, remoteVersion) ==
  LET localKeys == Keys(localData) \ ReservedFields
      remoteKeys == Keys(remoteData) \ ReservedFields
      differing == {k \in localKeys \cap remoteKeys :
                      Val(localData, k) # Val(remoteData, k)}
      fields == differing \cup (localKeys \ remoteKeys) \cup (remoteKeys \ localKeys)
  IN IF localVersion = remoteVersion
     THEN [hasConflict |-> FALSE, conflictingFields |-> {}, conflictType |-> "none"]
     ELSE IF fields # {}
          THEN [hasConflict |-> TRUE, conflictingFields |-> fields,
                conflictType |-> "direct"]
          ELSE [hasConflict |-> FALSE, conflictingFields |-> {}, conflictType |-> "none"]

\* A row marked synced without the time of the synchronisation.
SyncedStatusOnly(m) ==
  [m EXCEPT !.syncStatus = "synced", !.conflictFlag = FALSE]

\* version tracker markSynced, the row written.
SyncedMetaRow(m) ==
  [m EXCEPT !.lastSyncedAt = "set", !.syncStatus = "synced", !.conflictFlag = FALSE]

\* markSynced(contentType, entityId), first await: findOne.
MetaSyncedFind(p) ==
  /\ pc[p] = "ms_find"
  /\ IF MetaRows(loc[p].e) = {}
     THEN Return(p, loc[p])
     ELSE \E m \in MetaRows(loc[p].e) : Goto(p, "ms_write", [loc[p] EXCEPT !.x = m.id])
  /\ UNCHANGED <<envVars, dbVars, flags, histVars>>

\* markSynced, second await: update({id: metadata.id}).
MetaSyncedWrite(p) ==
  /\ pc[p] = "ms_write"
  /\ meta' = {IF m.id = loc[p].x THEN SyncedMetaRow(m) ELSE m : m \in meta}
  /\ Return(p, loc[p])
  /\ UNCHANGED <<envVars, entity, queue, conflicts, nextId, flags, histVars>>

\* ---------------------------------------------------------- conflict resolver
PendingConflicts(e) == {c \in conflicts : c.entityId = e /\ c.status = "pending"}

NewConflictRow(id, l) ==
  [id |-> id, entityId |-> l.e, localData |-> l.le, remoteData |-> l.d,
   conflictingFields |-> l.cf, conflictType |-> "direct", status |-> "pending"]

UpdatedConflictRow(c, l) ==
  [c EXCEPT !.localData = l.le, !.remoteData = l.d, !.conflictingFields = l.cf,
            !.conflictType = "direct"]

\* flagConflict, first await: findOne({contentType, entityId, status: pending}).
FlagConflictFind(p) ==
  /\ pc[p] = "fc_find"
  /\ IF PendingConflicts(loc[p].e) = {}
     THEN Goto(p, "fc_write", [loc[p] EXCEPT !.x = 0])
     ELSE \E c \in PendingConflicts(loc[p].e) :
            Goto(p, "fc_write", [loc[p] EXCEPT !.x = c.id])
  /\ UNCHANGED <<envVars, dbVars, flags, histVars>>

\* flagConflict, second await: update({id: existing.id}) or create.
FlagConflictWrite(p) ==
  /\ pc[p] = "fc_write"
  /\ LET l == loc[p] IN
     /\ IF l.x # 0
        THEN /\ conflicts' = {IF c.id = l.x THEN UpdatedConflictRow(c, l) ELSE c :
                                c \in conflicts}
             /\ UNCHANGED nextId
        ELSE /\ nextId.conflicts <= MaxRows
             /\ conflicts' = conflicts \cup {NewConflictRow(nextId.conflicts, l)}
             /\ nextId' = [nextId EXCEPT !.conflicts = @ + 1]
     /\ Return(p, l)
  /\ UNCHANGED <<envVars, entity, meta, queue, flags, histVars>>

\* ----------------------------------------------------- sync service: applyChange
\* The fields a CMS update leaves: those of the data, and the others as they were.
MergedData(old, d) == d \cup {kv \in old : kv[1] \notin Keys(d)}

\* applyChange, first await: the local entity.  loc.e, loc.op, loc.d, loc.v
\* are the change, loc.src its source.
ApplyFind(p) ==
  /\ pc[p] = "ac_find"
  /\ Goto(p, "ac_meta", [loc[p] EXCEPT !.le = entity[loc[p].e]])
  /\ UNCHANGED <<envVars, dbVars, flags, histVars>>

\* Where applyChange goes on once it found no conflict: to the CMS write of
\* its operation, or straight to markSynced when there is nothing to write.
ApplyDispatch(l) ==
  IF (l.op = "create" /\ l.le = Null) \/ (l.op \in {"update", "delete"} /\ l.le # Null)
  THEN "ac_write"
  ELSE "ms_find"

\* applyChange, second await: the local metadata, then detectConflict.
ApplyMeta(p) ==
  /\ pc[p] = "ac_meta"
  /\ LET l == loc[p]
         noConflict == Goto(p, ApplyDispatch(l), l)
     IN IF MetaRows(l.e) = {} \/ l.le = Null \/ l.src # "remote"
        THEN noConflict
        ELSE \E m \in MetaRows(l.e) :
               LET c == DetectConflict(l.le, m.syncVersion, l.d, l.v) IN
               IF c.hasConflict
               THEN Call(p, "fc_find", "ac_conflict", [l EXCEPT !.cf = c.conflictingFields])
               ELSE noConflict
  /\ UNCHANGED <<envVars, dbVars, flags, histVars>>

ConflictMetaRow(m) == [m EXCEPT !.syncStatus = "conflict", !.conflictFlag = TRUE]

\* applyChange after flagConflict: update({contentType, entityId}) of the
\* metadata, which writes one matching row; the change is not applied.
ApplyConflict(p) ==
  /\ pc[p] = "ac_conflict"
  /\ IF MetaRows(loc[p].e) = {}
     THEN UNCHANGED meta
     ELSE \E m \in MetaRows(loc[p].e) : meta' = (meta \ {m}) \cup {ConflictMetaRow(m)}
  /\ Return(p, loc[p])
  /\ UNCHANGED <<envVars, entity, queue, conflicts, nextId, flags, histVars>>

\* applyChange, the CMS write of the operation.  create and update go on to
\* incrementVersion and markSynced, delete to the purge of the metadata.
ApplyWrite(p) ==
  /\ pc[p] = "ac_write"
  /\ LET l == loc[p]
         by == IF l.src = "local" THEN "local" ELSE "remote"
     IN CASE l.op = "create" ->
               /\ entity' = [entity EXCEPT ![l.e] = l.d]
               /\ Call(p, "inc_find", "ms_find", [l EXCEPT !.by = by])
          [] l.op = "update" ->
               /\ entity' = [entity EXCEPT ![l.e] =
                               IF @ = Null THEN Null ELSE MergedData(@, l.d)]
               /\ Call(p, "inc_find", "ms_find", [l EXCEPT !.by = by])
          [] l.op = "delete" ->
               /\ entity' = [entity EXCEPT ![l.e] = Null]
               /\ Goto(p, "ac_purge", l)
  /\ UNCHANGED <<envVars, meta, queue, conflicts, nextId, flags, histVars>>

\* applyChange, delete: delete({contentType, entityId}) of the metadata, which
\* removes one matching row; then markSynced.
ApplyPurge(p) ==
  /\ pc[p] = "ac_purge"
  /\ IF MetaRows(loc[p].e) = {}
     THEN UNCHANGED meta
     ELSE \E m \in MetaRows(loc[p].e) : meta' = meta \ {m}
  /\ Goto(p, "ms_find", loc[p])
  /\ UNCHANGED <<envVars, entity, queue, conflicts, nextId, flags, histVars>>


\* --------------------------------------------------- sync service: pushToMaster
\* getPending(): the pending rows, oldest first, capped at batchSize (50, more
\* than a table of MaxRows rows holds).
PendingOps == {r \in queue : r.status = "pending"}

\* What pushToMaster keeps of a row it read: its id and the change it sends.
Batch(rows) ==
  {[id |-> r.id, entityId |-> r.entityId, operation |-> r.operation, data |-> r.data] :
     r \in rows}

MinRow(rows) == CHOOSE r \in rows : \A q \in rows : r.id <= q.id

\* pushToMaster, first await: getPending().  With nothing pending it returns.
PushStart(p) ==
  /\ pc[p] = "idle"
  /\ mode = "replica"
  /\ PendingOps # {}
  /\ Goto(p, "push_post", [IdleLoc EXCEPT !.h = "push", !.snap = Batch(PendingOps)])
  /\ UNCHANGED <<envVars, dbVars, flags, histVars>>

\* The entities a response reports as updated: the creates and updates the
\* master applied, each with the data it now stores.
UpdatedEntities(applied) ==
  {[e |-> r.entityId, d |-> r.data] : r \in {a \in applied : a.operation # "delete"}}

\* pushToMaster, the POST answered: the master applied the changes `applied`
\* of the batch (it skips a change that conflicts or has no target).
PushOk(p, applied) ==
  /\ pc[p] = "push_post"
  /\ masterUp
  /\ applied \subseteq loc[p].snap
  /\ count' = [count EXCEPT !.pushes = IF @ < MaxPushes THEN @ + 1 ELSE @]
  /\ sent' = sent \cup loc[p].snap
  /\ Goto(p, IF applied # {} THEN "push_mark" ELSE "push_apply",
          [loc[p] EXCEPT !.n = Cardinality(applied), !.upd = UpdatedEntities(applied)])
  /\ UNCHANGED <<linkVars, dbVars, flags, scen, lastVer, incs, dlv, outcome, sideVars>>

\* pushToMaster, the POST failed (the master is unreachable): every row of the batch is marked failed.
PushErr(p) ==
  /\ pc[p] = "push_post"
  /\ ~masterUp
  /\ count' = [count EXCEPT !.fails = IF @ < MaxFails THEN @ + 1 ELSE @]
  /\ Goto(p, "push_fail", loc[p])
  /\ UNCHANGED <<linkVars, dbVars, flags, histVars>>

\* pushToMaster, processed > 0: markSynced(op.id) for every row of the batch.
PushMark(p) ==
  /\ pc[p] = "push_mark"
  /\ LET r == MinRow(loc[p].snap)
         rest == loc[p].snap \ {r}
     IN /\ queue' = {IF q.id = r.id THEN SyncedQueueRow(q) ELSE q : q \in queue}
        /\ scen' = [scen EXCEPT ![r.entityId] = "void"]
        /\ Goto(p, IF rest = {} THEN "push_apply" ELSE "push_mark",
                [loc[p] EXCEPT !.snap = rest])
  /\ UNCHANGED <<envVars, entity, meta, conflicts, nextId, flags, lastVer, incs, sent,
               dlv, outcome, sideVars>>

\* pushToMaster, applyChange(entity, 'remote') for every updated entity of the
\* response; such an entity carries neither an operation nor a version.
PushApply(p) ==
  /\ pc[p] = "push_apply"
  /\ IF loc[p].upd = {}
     THEN Return(p, loc[p])
     ELSE \E u \in loc[p].upd :
            Call(p, "ac_find", "push_apply",
                 [loc[p] EXCEPT !.upd = @ \ {u}, !.e = u.e, !.d = u.d, !.op = "none",
                                !.v = 0, !.src = "remote", !.le = Null, !.cf = {}])
  /\ UNCHANGED <<envVars, dbVars, flags, histVars>>

\* pushToMaster, markFailed(op.id) for every row of the batch.
PushFail(p) ==
  /\ pc[p] = "push_fail"
  /\ IF loc[p].snap = {}
     THEN Return(p, loc[p])
     ELSE LET r == MinRow(loc[p].snap) IN
          Call(p, "mf_find", "push_fail", [loc[p] EXCEPT !.snap = @ \ {r}, !.x = r.id])
  /\ UNCHANGED <<envVars, dbVars, flags, histVars>>

\* --------------------------------------------------- sync service: pullFromMaster
\* The changes the master's GET /sync/pull answers with: an update with the
\* entity's data, or a delete, each with the master's version of the entity.
PullChanges ==
  {[e |-> e, op |-> "update", d |-> d, v |-> v] :
     e \in Entities, d \in Payloads, v \in 1..MaxVersion}
  \cup {[e |-> e, op |-> "delete", d |-> Null, v |-> v] :
          e \in Entities, v \in 1..MaxVersion}

PullAnswers == UNION {[1..n -> PullChanges] : n \in 1..MaxBatch}

\* pullFromMaster, the GET answered with the changes chgs.
PullRecv(p, chgs) ==
  /\ pc[p] = "idle"
  /\ mode = "replica"
  /\ masterUp
  /\ count' = [count EXCEPT !.reqs = IF @ < MaxRequests THEN @ + 1 ELSE @]
  /\ Goto(p, "pl_next", [IdleLoc EXCEPT !.h = "pull", !.todo = chgs])
  /\ UNCHANGED <<linkVars, dbVars, flags, histVars>>

\* pullFromMaster, applyChange(change, 'remote') for every change, then the
\* last sync timestamp.
PullNext(p) ==
  /\ pc[p] = "pl_next"
  /\ LET l == loc[p] IN
     IF l.todo = <<>>
     THEN Return(p, l)
     ELSE LET c == Head(l.todo) IN
          Call(p, "ac_find", "pl_next",
               [l EXCEPT !.todo = Tail(@), !.e = c.e, !.op = c.op, !.d = c.d,
                         !.v = c.v, !.src = "remote", !.le = Null, !.cf = {}])
  /\ UNCHANGED <<envVars, dbVars, flags, histVars>>

\* ----------------------------------------- master: the POST /sync/push handler
\* The changes a ship may send: the operation, the data (none for a delete)
\* and the ship's version of the entity (0 for a delete).
Changes ==
  {[e |-> e, op |-> op, d |-> d, v |-> v] :
     e \in Entities, op \in {"create", "update"}, d \in Payloads, v \in 1..MaxVersion}
  \cup {[e |-> e, op |-> "delete", d |-> Null, v |-> 0] : e \in Entities}

\* The requests: a non-empty array of at most MaxBatch changes.
Requests == UNION {[1..n -> Changes] : n \in 1..MaxBatch}

\* History of the scenario "a request is delivered, and after it completed the
\* same request is delivered again, with no other request in between".
DlvBegin(p, chgs) ==
  IF dlv.st = "none" /\ (\A q \in Procs : pc[q] = "idle")
  THEN [st |-> "first", chg |-> chgs, after |-> <<>>]
  ELSE IF dlv.st = "once" /\ dlv.chg = chgs /\ (\A q \in Procs : pc[q] = "idle")
       THEN [dlv EXCEPT !.st = "second"]
       ELSE [st |-> "void", chg |-> <<>>, after |-> <<>>]

DlvEnd ==
  IF dlv.st = "first"
  THEN [dlv EXCEPT !.st = "once", !.after = <<entity, meta, conflicts, queue>>]
  ELSE IF dlv.st = "second"
       THEN [dlv EXCEPT !.st = "twice"]
       ELSE dlv

\* push, up to the loop: only the master takes pushes.  loc.todo is what is
\* left of the changes, loc.n the count processed, loc.upd updatedEntities.
PushRecv(p, chgs) ==
  /\ pc[p] = "idle"
  /\ mode = "master"
  /\ count' = [count EXCEPT !.reqs = IF @ < MaxRequests THEN @ + 1 ELSE @]
  /\ dlv' = DlvBegin(p, chgs)
  /\ Goto(p, "ph_next", [IdleLoc EXCEPT !.h = "push_in", !.todo = chgs])
  /\ UNCHANGED <<linkVars, dbVars, flags, scen, lastVer, incs, sent, outcome, sideVars>>

\* push, the head of the loop over the changes.  loc.cv keeps the version of
\* the change (loc.v holds what incrementVersion returns later on).
PhNext(p) ==
  /\ pc[p] = "ph_next"
  /\ LET l == loc[p] IN
     IF l.todo = <<>>
     THEN Goto(p, "ph_done", l)
     ELSE LET c == Head(l.todo) IN
          Goto(p, "ph_find", [l EXCEPT !.todo = Tail(@), !.e = c.e, !.op = c.op,
                                       !.d = c.d, !.v = c.v, !.cv = c.v, !.le = Null, !.lv = 0,
                                       !.cf = {}])
  /\ UNCHANGED <<envVars, dbVars, flags, histVars>>

\* push, first await of a change: the master's entity.
PhFind(p) ==
  /\ pc[p] = "ph_find"
  /\ Goto(p, "ph_meta", [loc[p] EXCEPT !.le = entity[loc[p].e]])
  /\ UNCHANGED <<envVars, dbVars, flags, histVars>>

\* Where push goes on once it found no conflict: to the CMS write of the
\* operation, or to the next change when there is nothing to write.
PhDispatch(l) ==
  IF (l.op = "create" /\ l.le = Null) \/ (l.op \in {"update", "delete"} /\ l.le # Null)
  THEN "ph_write"
  ELSE "ph_next"

\* push, second await of a change: the master's metadata, then detectConflict
\* when the master has the entity and metadata of it.
PhMeta(p) ==
  /\ pc[p] = "ph_meta"
  /\ LET l == loc[p] IN
     IF MetaRows(l.e) = {} \/ l.le = Null
     THEN Goto(p, PhDispatch(l), l)
     ELSE \E m \in MetaRows(l.e) :
            LET c == DetectConflict(l.le, m.syncVersion, l.d, l.v)
                k == [l EXCEPT !.lv = m.syncVersion]
            IN IF c.hasConflict
               THEN Call(p, "fc_find", "ph_conflict", [k EXCEPT !.cf = c.conflictingFields])
               ELSE Goto(p, PhDispatch(k), k)
  /\ UNCHANGED <<envVars, dbVars, flags, histVars>>

\* push, after flagConflict: conflicts++ and on to the next change.
PhConflict(p) ==
  /\ pc[p] = "ph_conflict"
  /\ Goto(p, "ph_next", loc[p])
  /\ UNCHANGED <<envVars, dbVars, flags, histVars>>

\* push, the CMS write of the operation.  create and update go on to
\* incrementVersion; delete counts as processed at once.
PhWrite(p) ==
  /\ pc[p] = "ph_write"
  /\ LET l == loc[p] IN
     CASE l.op = "create" ->
            /\ entity' = [entity EXCEPT ![l.e] = l.d]
            /\ Call(p, "inc_find", "ph_applied", [l EXCEPT !.by = "ship-1"])
       [] l.op = "update" ->
            /\ entity' = [entity EXCEPT ![l.e] =
                            IF @ = Null THEN Null ELSE MergedData(@, l.d)]
            /\ Call(p, "inc_find", "ph_applied", [l EXCEPT !.by = "ship-1"])
       [] l.op = "delete" ->
            /\ entity' = [entity EXCEPT ![l.e] = Null]
            /\ Goto(p, "ph_next", [l EXCEPT !.n = @ + 1])
  /\ UNCHANGED <<envVars, meta, queue, conflicts, nextId, flags, histVars>>

\* push, after incrementVersion: the entity joins updatedEntities, processed++.
PhApplied(p) ==
  /\ pc[p] = "ph_applied"
  /\ Goto(p, "ph_next", [loc[p] EXCEPT !.n = @ + 1,
                                       !.upd = @ \cup {[e |-> loc[p].e, d |-> loc[p].d]}])
  /\ UNCHANGED <<envVars, dbVars, flags, histVars>>

\* push, after the loop: the ship's sync status is recorded and the response sent.
PhDone(p) ==
  /\ pc[p] = "ph_done"
  /\ dlv' = DlvEnd
  /\ Return(p, loc[p])
  /\ UNCHANGED <<envVars, dbVars, flags, scen, lastVer, incs, sent, outcome, sideVars>>

\* --------------------------------------------------- master: the ship tracker
Ships == {"s1"}

SessionsOf(ship) == {r \in sessions : r.shipId = ship}

\* session.onlineThreshold || 300000
ThresholdOf(r) == IF r.onlineThreshold = 0 THEN DefaultThreshold ELSE r.onlineThreshold

\* A ship last seen exactly the threshold ago counted as seen within it.
SeenWithinOrAt(r, now) == now - r.lastSeenAt <= ThresholdOf(r)

\* timeSinceLastSeen < threshold
SeenWithin(r, now) == now - r.lastSeenAt < ThresholdOf(r)

NewSession(id, ship, now) ==
  [id |-> id, shipId |-> ship, lastSeenAt |-> now, isOnline |-> TRUE,
   onlineThreshold |-> DefaultThreshold]

NoReport == [fn |-> "none", ship |-> "none", had |-> FALSE, on |-> FALSE, age |-> 0]

\* recordShipActivity, first await: findOne({shipId}).  The controllers of
\* the master call it for every request of a ship.
RecordFind(p, ship) ==
  /\ pc[p] = "idle"
  /\ mode = "master"
  /\ IF SessionsOf(ship) = {}
     THEN Goto(p, "ra_write", [IdleLoc EXCEPT !.h = "record", !.ship = ship, !.x = 0])
     ELSE \E r \in SessionsOf(ship) :
            Goto(p, "ra_write", [IdleLoc EXCEPT !.h = "record", !.ship = ship, !.x = r.id])
  /\ UNCHANGED <<envVars, dbVars, flags, scen, lastVer, incs, sent, dlv, outcome, calc,
                 shipVars, bootVars, media, wire, serve, monitor, res>>

\* recordShipActivity, second await: update({id}) with lastSeenAt now and
\* isOnline true, or create.
RecordWrite(p) ==
  /\ pc[p] = "ra_write"
  /\ sessions' =
       IF loc[p].x # 0
       THEN {IF r.id = loc[p].x THEN [r EXCEPT !.lastSeenAt = clock, !.isOnline = TRUE]
             ELSE r : r \in sessions}
       ELSE sessions \cup {NewSession(Cardinality(sessions) + 1, loc[p].ship, clock)}
  /\ Return(p, loc[p])
  /\ UNCHANGED <<envVars, dbVars, flags, scen, lastVer, incs, sent, dlv, outcome, calc,
                 clock, report, bootVars, media, wire, serve, monitor, res>>

\* isShipOnline, first await: findOne({shipId}); without a session the
\* result is false, else whether the ship was seen within the threshold.
\* loc.on is the result, loc.at the time it is computed at, loc.seen the
\* session's lastSeenAt, loc.n whether there was a session.
ShipOnlineFind(p) ==
  /\ pc[p] = "so_find"
  /\ LET l == loc[p] IN
     IF SessionsOf(l.ship) = {}
     THEN Return(p, [l EXCEPT !.on = FALSE, !.at = clock, !.n = 0])
     ELSE \E r \in SessionsOf(l.ship) :
            LET k == [l EXCEPT !.on = SeenWithin(r, clock), !.at = clock,
                               !.seen = r.lastSeenAt, !.n = 1, !.x = r.id]
            IN IF r.isOnline # k.on THEN Goto(p, "so_write", k) ELSE Return(p, k)
  /\ UNCHANGED <<envVars, dbVars, flags, scen, lastVer, incs, sent, dlv, outcome, calc,
                 shipVars, bootVars, media, wire, serve, monitor, res>>

\* isShipOnline, second await: the stored status is updated when it changed.
ShipOnlineWrite(p) ==
  /\ pc[p] = "so_write"
  /\ sessions' = {IF r.id = loc[p].x THEN [r EXCEPT !.isOnline = loc[p].on] ELSE r :
                    r \in sessions}
  /\ Return(p, loc[p])
  /\ UNCHANGED <<envVars, dbVars, flags, scen, lastVer, incs, sent, dlv, outcome, calc,
                 clock, report, bootVars, media, wire, serve, monitor, res>>

\* What a caller is told: whether the ship had a session, the status, and
\* the time since the ship was last seen when the status was computed.
ReportOf(fn, l) ==
  [fn |-> fn, ship |-> l.ship, had |-> l.n = 1, on |-> l.on, age |-> l.at - l.seen]

\* A caller asks isShipOnline(shipId).
IsShipOnline(p, ship) ==
  /\ pc[p] = "idle"
  /\ mode = "master"
  /\ Call(p, "so_find", "io_done", [IdleLoc EXCEPT !.h = "isShipOnline", !.ship = ship])
  /\ UNCHANGED <<envVars, dbVars, flags, scen, lastVer, incs, sent, dlv, outcome, calc,
                 shipVars, bootVars, media, wire, serve, monitor, res>>

IsShipOnlineDone(p) ==
  /\ pc[p] = "io_done"
  /\ report' = ReportOf("isShipOnline", loc[p])
  /\ Return(p, loc[p])
  /\ UNCHANGED <<envVars, dbVars, flags, scen, lastVer, incs, sent, dlv, outcome, calc,
                 sessions, clock, bootVars, media, wire, serve, monitor, res>>

\* getShipStatus, first await: findOne({shipId}); null without a session,
\* else isShipOnline(shipId).
GetShipStatus(p, ship) ==
  /\ pc[p] = "idle"
  /\ mode = "master"
  /\ IF SessionsOf(ship) = {}
     THEN /\ report' = [NoReport EXCEPT !.fn = "getShipStatus", !.ship = ship]
          /\ UNCHANGED <<pc, loc>>
     ELSE /\ Call(p, "so_find", "gs_done",
                  [IdleLoc EXCEPT !.h = "getShipStatus", !.ship = ship])
          /\ UNCHANGED report
  /\ UNCHANGED <<envVars, dbVars, flags, scen, lastVer, incs, sent, dlv, outcome, calc,
                 sessions, clock, bootVars, media, wire, serve, monitor, res>>

\* getShipStatus, the status returned.
GetShipStatusDone(p) ==
  /\ pc[p] = "gs_done"
  /\ report' = ReportOf("getShipStatus", loc[p])
  /\ Return(p, loc[p])
  /\ UNCHANGED <<envVars, dbVars, flags, scen, lastVer, incs, sent, dlv, outcome, calc,
                 sessions, clock, bootVars, media, wire, serve, monitor, res>>

\* getAllShipsStatus, first await: findMany; loc.snap is the ships of the
\* sessions found.
GetAllShipsStatus(p) ==
  /\ pc[p] = "idle"
  /\ mode = "master"
  /\ Goto(p, "ga_next", [IdleLoc EXCEPT !.h = "getAllShipsStatus",
                                        !.snap = {r.shipId : r \in sessions}])
  /\ UNCHANGED <<envVars, dbVars, flags, scen, lastVer, incs, sent, dlv, outcome, calc,
                 shipVars, bootVars, media, wire, serve, monitor, res>>

\* getAllShipsStatus, the loop: isShipOnline(session.shipId) for every session.
GetAllNext(p) ==
  /\ pc[p] = "ga_next"
  /\ IF loc[p].snap = {}
     THEN Return(p, loc[p])
     ELSE \E ship \in loc[p].snap :
            Call(p, "so_find", "ga_push", [loc[p] EXCEPT !.snap = @ \ {ship}, !.ship = ship])
  /\ UNCHANGED <<envVars, dbVars, flags, scen, lastVer, incs, sent, dlv, outcome, calc,
                 shipVars, bootVars, media, wire, serve, monitor, res>>

\* getAllShipsStatus, ships.push of the session with its status.
GetAllPush(p) ==
  /\ pc[p] = "ga_push"
  /\ report' = ReportOf("getAllShipsStatus", loc[p])
  /\ Goto(p, "ga_next", loc[p])
  /\ UNCHANGED <<envVars, dbVars, flags, scen, lastVer, incs, sent, dlv, outcome, calc,
                 sessions, clock, bootVars, media, wire, serve, monitor, res>>

\* markOfflineShips, first await: findMany({isOnline: true}); now is taken
\* once, before the loop.
MarkOfflineShips(p) ==
  /\ pc[p] = "idle"
  /\ mode = "master"
  /\ Goto(p, "mo_next", [IdleLoc EXCEPT !.h = "markOfflineShips", !.at = clock,
                                        !.snap = {r \in sessions : r.isOnline}])
  /\ UNCHANGED <<envVars, dbVars, flags, scen, lastVer, incs, sent, dlv, outcome, calc,
                 shipVars, bootVars, media, wire, serve, monitor, res>>

\* markOfflineShips, the loop: update({id}) with isOnline false for every
\* session found that was last seen the threshold ago or longer.
MarkOfflineNext(p) ==
  /\ pc[p] = "mo_next"
  /\ IF loc[p].snap = {}
     THEN /\ Return(p, loc[p])
          /\ UNCHANGED sessions
     ELSE \E r \in loc[p].snap :
            /\ sessions' = IF loc[p].at - r.lastSeenAt >= ThresholdOf(r)
                           THEN {IF q.id = r.id THEN [q EXCEPT !.isOnline = FALSE] ELSE q :
                                   q \in sessions}
                           ELSE sessions
            /\ Goto(p, "mo_next", [loc[p] EXCEPT !.snap = @ \ {r}])
  /\ UNCHANGED <<envVars, dbVars, flags, scen, lastVer, incs, sent, dlv, outcome, calc,
                 clock, report, bootVars, media, wire, serve, monitor, res>>

\* Time passes.
Tick ==
  /\ clock < MaxTicks * TickMs
  /\ clock' = clock + TickMs
  /\ UNCHANGED <<envVars, dbVars, flags, pc, loc, scen, lastVer, incs, sent, dlv, outcome,
                 calc, sessions, report, bootVars, media, wire, serve, monitor, res>>

\* ----------------------------------------- bootstrap: connection retry chain
MaxConnectRetries == 10       \* retryConnection(..., 10, 2000)
InitialDelay == 2000
BackgroundRetries == 5        \* retryConnection(..., 5, 30000, true)
BackgroundDelay == 30000
MaxDelay == 30000             \* const maxDelay = 30000
DebounceMs == 1000            \* pluginConfig.sync.debounceMs || 1000
STABILIZATION_DELAY_MS == 3000
AutoPushDelay == 2000         \* setTimeout(resolve, 2000)

\* Everything but the time and the variables of the bootstrap.
coreVars ==
  <<envVars, dbVars, flags, pc, loc, scen, lastVer, incs, sent, dlv, outcome, calc,
    sessions, report, media, wire, serve, monitor, res>>

\* The operation kind starts: started.tick flips at every start.
Start(kind) == started' = [kind |-> kind, tick |-> ~started.tick]

\* retryConnection as called at bootstrap: 10 attempts from a delay of 2 s.
\* tries and waits are history: the calls of connectFn and the delays waited.
FirstChain ==
  [st |-> "enter", attempt |-> 0, maxRetries |-> MaxConnectRetries,
   delay |-> InitialDelay, bg |-> FALSE, tries |-> 0, waits |-> <<>>]

\* retryConnection as called by the background timer.
BackgroundChain ==
  [st |-> "enter", attempt |-> 0, maxRetries |-> BackgroundRetries,
   delay |-> BackgroundDelay, bg |-> TRUE, tries |-> 0, waits |-> <<>>]

\* Math.floor(delay * backoffMultiplier), without the cap.
UncappedDelay(delay) == (delay * 3) \div 2

\* delay = Math.min(Math.floor(delay * backoffMultiplier), maxDelay)
NextDelay(delay) ==
  IF (delay * 3) \div 2 < MaxDelay THEN (delay * 3) \div 2 ELSE MaxDelay

\* retryConnection, entry: nothing is tried when shutting down.
RetryEnter ==
  /\ conn.st = "enter"
  /\ conn' = [conn EXCEPT !.st = IF shut.flag THEN "skipped" ELSE "loop"]
  /\ UNCHANGED <<coreVars, clock, shut, net, timers, push, started>>

\* retryConnection, the head of the loop: the shutdown flag is checked, then
\* connectFn() is called.
RetryAttempt ==
  /\ conn.st = "loop"
  /\ IF shut.flag
     THEN /\ conn' = [conn EXCEPT !.st = "aborted"]
          /\ UNCHANGED started
     ELSE /\ conn' = [conn EXCEPT !.st = "connecting", !.tries = @ + 1]
          /\ Start("connect")
  /\ UNCHANGED <<coreVars, clock, shut, net, timers, push>>

\* retryConnection, await Promise.race([connectionPromise, timeoutPromise]):
\* the connection succeeds when the bus is reachable; else the attempt
\* fails.  Before the last attempt the wait begins: a timeout of `delay` and
\* an interval of 1 s that polls the shutdown flag are set.  After the last
\* attempt of the first chain the background chain is scheduled, unless
\* shutting down.
RetryResult ==
  /\ conn.st = "connecting"
  /\ IF net.reachable
     THEN /\ conn' = [conn EXCEPT !.st = "connected"]
          /\ net' = [net EXCEPT !.producer = TRUE]
          /\ UNCHANGED timers
     ELSE /\ conn' =
               IF conn.attempt + 1 < conn.maxRetries
               THEN [conn EXCEPT !.st = "sleeping", !.attempt = @ + 1,
                                 !.waits = Append(@, conn.delay)]
               ELSE IF ~conn.bg /\ ~shut.flag
                    THEN [conn EXCEPT !.st = "bgwait", !.attempt = @ + 1]
                    ELSE [conn EXCEPT !.st = "exhausted", !.attempt = @ + 1]
          /\ timers' = IF conn.attempt + 1 < conn.maxRetries
                       THEN [timers EXCEPT !.polls = @ + 1]
                       ELSE timers
          /\ UNCHANGED net
  /\ UNCHANGED <<coreVars, clock, shut, push, started>>

\* retryConnection, the wait before the next attempt ends.  Either the
\* timeout fires: it resolves the wait, the interval stays set, the next
\* delay is computed.  Or, when shutting down, the interval fires first: it
\* clears itself and the timeout and the run ends with 'Shutdown in progress'.
RetryWake ==
  /\ conn.st = "sleeping"
  /\ \/ /\ conn' = [conn EXCEPT !.st = "loop", !.delay = NextDelay(@)]
        /\ UNCHANGED timers
     \/ /\ shut.flag
        /\ conn' = [conn EXCEPT !.st = "aborted"]
        /\ timers' = [timers EXCEPT !.polls = @ - 1]
  /\ UNCHANGED <<coreVars, clock, shut, net, push, started>>

\* The interval of a wait that ended with its timeout fires while shutting
\* down: it clears itself (its reject has no effect any more).
StalePollFire ==
  /\ shut.flag
  /\ timers.polls > (IF conn.st = "sleeping" THEN 1 ELSE 0)
  /\ timers' = [timers EXCEPT !.polls = @ - 1]
  /\ UNCHANGED <<coreVars, clock, conn, shut, net, push, started>>

\* The background timer fires after 30 s:
\* retryConnection(connectFn, serviceName, strapi, 5, 30000, true).
BgRetryFire ==
  /\ conn.st = "bgwait"
  /\ conn' = BackgroundChain
  /\ UNCHANGED <<coreVars, clock, shut, net, timers, push, started>>

\* The bus becomes reachable or unreachable; a lost bus disconnects the
\* producer.
BusChange ==
  /\ net.flaps < MaxFlaps
  /\ net' = [net EXCEPT !.reachable = ~@, !.flaps = @ + 1,
                        !.producer = IF net.reachable THEN FALSE ELSE @]
  /\ UNCHANGED <<coreVars, clock, conn, shut, timers, push, started>>

\* gracefulShutdown, first statement: strapi._isShuttingDown = true.
ShutdownBegin ==
  /\ ~shut.flag
  /\ shut' = [shut EXCEPT !.flag = TRUE]
  /\ UNCHANGED <<coreVars, clock, conn, net, timers, push, started>>

\* gracefulShutdown, the cleanup functions of the replica in registration
\* order: the producer and the consumer disconnect, the connectivity
\* monitor stops, the heartbeat and the auto-push timers are cleared.
ShutdownCleanup ==
  /\ shut.flag
  /\ ~shut.cleaned
  /\ shut' = [shut EXCEPT !.cleaned = TRUE]
  /\ net' = [net EXCEPT !.producer = FALSE]
  /\ timers' = [timers EXCEPT !.monitor = FALSE, !.heartbeat = FALSE, !.autoPush = FALSE]
  /\ UNCHANGED <<coreVars, clock, conn, push, started>>

\* ------------------------------------------ bootstrap: the replica's timers
\* connectivityMonitor.checkConnectivity(): the bus is probed and the state
\* of the monitor updated.
Probed == [net EXCEPT !.online = net.reachable]

\* The probe finds the false -> true transition.
WasReconnected == net.reachable /\ ~net.online

\* The timers after a probe: on the transition the reconnect callback sets a
\* timer of STABILIZATION_DELAY_MS.
ProbedTimers ==
  IF WasReconnected
  THEN [timers EXCEPT !.recon = @ \cup {clock + STABILIZATION_DELAY_MS}]
  ELSE timers

\* The time of the transition, for the record.
ProbedAt == IF WasReconnected THEN {clock} ELSE push.reconAt

\* executePush(), up to its first await: a call during a push is counted in
\* pushQueue and returns.  late records that the call was made after the
\* cleanup of a shutdown.
ExecutePush(ps, by) ==
  IF ps.isPushing
  THEN [ps EXCEPT !.pushQueue = IF @ < MaxPending THEN @ + 1 ELSE @]
  ELSE [ps EXCEPT !.isPushing = TRUE, !.exec = "pending", !.by = by,
                  !.late = shut.cleaned]

\* executePush(), finally: a call counted in pushQueue is rerun by
\* setImmediate.
ExecFinally(ps) ==
  [ps EXCEPT !.isPushing = FALSE, !.exec = "idle", !.by = "none", !.late = FALSE,
             !.pushQueue = 0,
             !.immediate = @ \/ ps.pushQueue > 0]

\* The outcome of syncService.push(): the pending entries are sent when the
\* producer is connected.
Pushed(ps) == [ps EXCEPT !.pending = IF net.producer THEN 0 ELSE @]

\* The interceptor on the replica queues an edit and calls
\* strapi.offlineSyncPush(), the debounced executePush.
QueueEdit ==
  /\ push.pending < MaxPending
  /\ push' = [push EXCEPT !.pending = @ + 1]
  /\ timers' = [timers EXCEPT !.debounce = {clock + DebounceMs}]
  /\ UNCHANGED <<coreVars, clock, conn, shut, net, started>>

\* The debounce timer fires: executePush().
DebounceFire ==
  /\ \E d \in timers.debounce : clock >= d
  /\ timers' = [timers EXCEPT !.debounce = {}]
  /\ push' = ExecutePush(push, "debounce")
  /\ UNCHANGED <<coreVars, clock, conn, shut, net, started>>

\* setImmediate(executePush) runs.
ImmediateFire ==
  /\ push.immediate
  /\ push' = ExecutePush([push EXCEPT !.immediate = FALSE], "immediate")
  /\ UNCHANGED <<coreVars, clock, conn, shut, net, timers, started>>

\* executePush, await syncQueue.getPending(): nothing to push ends the call.
ExecPending ==
  /\ push.exec = "pending"
  /\ push' = IF push.pending = 0 THEN ExecFinally(push) ELSE [push EXCEPT !.exec = "check"]
  /\ UNCHANGED <<coreVars, clock, conn, shut, net, timers, started>>

\* executePush, await connectivityMonitor.checkConnectivity(): offline ends
\* the call, online starts syncService.push().
ExecCheck ==
  /\ push.exec = "check"
  /\ net' = Probed
  /\ timers' = ProbedTimers
  /\ IF net.reachable
     THEN /\ push' = [push EXCEPT !.exec = "pushing", !.reconAt = ProbedAt]
          /\ Start("push")
     ELSE /\ push' = ExecFinally(push)
          /\ UNCHANGED started
  /\ UNCHANGED <<coreVars, clock, conn, shut>>

\* executePush, await syncService.push() and finally.
ExecDone ==
  /\ push.exec = "pushing"
  /\ push' = ExecFinally(Pushed(push))
  /\ UNCHANGED <<coreVars, clock, conn, shut, net, timers, started>>

\* The connectivity monitor's periodic probe.
MonitorProbe ==
  /\ timers.monitor
  /\ net.online # net.reachable
  /\ net' = Probed
  /\ timers' = ProbedTimers
  /\ push' = [push EXCEPT !.reconAt = ProbedAt]
  /\ UNCHANGED <<coreVars, clock, conn, shut, started>>

\* The reconnect callback's timer fires: without a connected producer the
\* push is skipped.
ReconFire ==
  /\ push.rpush = "idle"
  /\ \E d \in timers.recon :
       /\ clock >= d
       /\ timers' = [timers EXCEPT !.recon = @ \ {d}]
  /\ push' = [push EXCEPT !.rpush = IF net.producer THEN "pending" ELSE "idle"]
  /\ UNCHANGED <<coreVars, clock, conn, shut, net, started>>

\* The reconnect callback, await syncQueue.getPending(): with pending
\* entries syncService.push() starts.
ReconPending ==
  /\ push.rpush = "pending"
  /\ IF push.pending > 0
     THEN /\ push' = [push EXCEPT !.rpush = "pushing"]
          /\ Start("push")
     ELSE /\ push' = [push EXCEPT !.rpush = "idle"]
          /\ UNCHANGED started
  /\ UNCHANGED <<coreVars, clock, conn, shut, net, timers>>

\* The reconnect callback, await syncService.push().
ReconDone ==
  /\ push.rpush = "pushing"
  /\ push' = [Pushed(push) EXCEPT !.rpush = "idle"]
  /\ UNCHANGED <<coreVars, clock, conn, shut, net, timers, started>>

\* The auto-push timer fires: autoPushCheck().
AutoPushFire ==
  /\ timers.autoPush
  /\ push.auto = "idle"
  /\ push' = [push EXCEPT !.auto = "pending"]
  /\ Start("autoPushCheck")
  /\ UNCHANGED <<coreVars, clock, conn, shut, net, timers>>

\* autoPushCheck, await syncQueue.getPending().
AutoPending ==
  /\ push.auto = "pending"
  /\ push' = [push EXCEPT !.auto = IF push.pending = 0 THEN "idle" ELSE "check"]
  /\ UNCHANGED <<coreVars, clock, conn, shut, net, timers, started>>

\* autoPushCheck, await connectivityMonitor.checkConnectivity(): online
\* after a reconnection waits 2 s, online otherwise calls executePush(),
\* offline is remembered in wasOffline.
AutoCheck ==
  /\ push.auto = "check"
  /\ net' = Probed
  /\ timers' = ProbedTimers
  /\ LET ps == [push EXCEPT !.reconAt = ProbedAt] IN
     push' = IF ~net.reachable
             THEN [ps EXCEPT !.auto = "idle", !.wasOffline = TRUE]
             ELSE IF WasReconnected \/ push.wasOffline
                  THEN [ps EXCEPT !.auto = "wait", !.wasOffline = FALSE,
                                  !.autoAt = clock + AutoPushDelay]
                  ELSE ExecutePush([ps EXCEPT !.auto = "idle"], "auto")
  /\ UNCHANGED <<coreVars, clock, conn, shut, started>>

\* autoPushCheck, after the 2 s: without a connected producer the push is
\* skipped, else executePush() is called.
AutoStable ==
  /\ push.auto = "wait"
  /\ clock >= push.autoAt
  /\ push' = IF net.producer
             THEN ExecutePush([push EXCEPT !.auto = "idle", !.autoAt = 0], "auto")
             ELSE [push EXCEPT !.auto = "idle", !.autoAt = 0]
  /\ UNCHANGED <<coreVars, clock, conn, shut, net, timers, started>>

\* The heartbeat timer fires: with a connected producer a heartbeat is sent.
HeartbeatFire ==
  /\ timers.heartbeat
  /\ net.producer
  /\ Start("heartbeat")
  /\ UNCHANGED <<coreVars, clock, conn, shut, net, timers, push>>

\* The producer reconnects to a reachable bus.
ProducerReconnect ==
  /\ net.reachable
  /\ ~net.producer
  /\ ~shut.flag
  /\ net' = [net EXCEPT !.producer = TRUE]
  /\ UNCHANGED <<coreVars, clock, conn, shut, timers, push, started>>

\* A second passes.
Elapse ==
  /\ clock < MaxSeconds * SecondMs
  /\ clock' = clock + SecondMs
  /\ UNCHANGED <<coreVars, conn, shut, net, timers, push, started>>

\* ------------------------------------------------ media sync: object paths
\* A URL or a path is a sequence of characters.
IsAt(s, pat, i) == i + Len(pat) - 1 <= Len(s) /\ SubSeq(s, i, i + Len(pat) - 1) = pat

\* s.includes(pat)
StrIncludes(s, pat) == \E i \in 1..(Len(s) + 1) : IsAt(s, pat, i)

\* s.replace(pat, rep) with a string pattern: the first occurrence only.
StrReplace(s, pat, rep) ==
  IF ~StrIncludes(s, pat)
  THEN s
  ELSE LET i == CHOOSE j \in 1..(Len(s) + 1) :
                  IsAt(s, pat, j) /\ \A k \in 1..(j - 1) : ~IsAt(s, pat, k)
       IN SubSeq(s, 1, i - 1) \o rep \o SubSeq(s, i + Len(pat), Len(s))

\* getMinioUrl(objectPath): `${config.minio.baseUrl}/${objectPath}`
GetMinioUrl(config, objectPath) == config.minio \o <<"/">> \o objectPath

\* getOssUrl(objectPath): `${config.oss.baseUrl}/${objectPath}`
GetOssUrl(config, objectPath) == config.oss \o <<"/">> \o objectPath

\* url with the base URL and its slash removed.
WithoutBase(url, base) == StrReplace(StrReplace(url, base \o <<"/">>, <<>>), base, <<>>)

\* urlToObjectPath(url): the URL of the master is tested first; null when
\* neither base URL occurs.
UrlToObjectPath(config, url) ==
  IF StrIncludes(url, config.oss)
  THEN WithoutBase(url, config.oss)
  ELSE IF StrIncludes(url, config.minio)
       THEN WithoutBase(url, config.minio)
       ELSE JNull

\* The URL of an object path in the replica's storage is asked for ...
GetMinioUrlCall ==
  /\ calc.fn = "getMinioUrl" /\ ~calc.done
  /\ calc' = [calc EXCEPT !.fn = "urlToObjectPath",
                          !.res = GetMinioUrl(calc.arg.config, calc.arg.path)]
  /\ UNCHANGED <<envVars, dbVars, flags, pc, loc, scen, lastVer, incs, sent, dlv,
                 outcome, shipVars, bootVars, media, wire, serve, monitor, res>>

\* ... or the one in the master's storage ...
GetOssUrlCall ==
  /\ calc.fn = "getOssUrl" /\ ~calc.done
  /\ calc' = [calc EXCEPT !.fn = "urlToObjectPath",
                          !.res = GetOssUrl(calc.arg.config, calc.arg.path)]
  /\ UNCHANGED <<envVars, dbVars, flags, pc, loc, scen, lastVer, incs, sent, dlv,
                 outcome, shipVars, bootVars, media, wire, serve, monitor, res>>

\* ... and the object path of that URL.
UrlToObjectPathCall ==
  /\ calc.fn = "urlToObjectPath" /\ ~calc.done
  /\ calc' = [calc EXCEPT !.res = UrlToObjectPath(calc.arg.config, calc.res),
                          !.done = TRUE]
  /\ UNCHANGED <<envVars, dbVars, flags, pc, loc, scen, lastVer, incs, sent, dlv,
                 outcome, shipVars, bootVars, media, wire, serve, monitor, res>>

\* ------------------------------------------- media sync: the two storages
\* Everything but the processes and the media sync.
nonMediaVars ==
  <<envVars, dbVars, flags, scen, lastVer, incs, sent, dlv, outcome, calc, shipVars,
    bootVars, wire, serve, monitor, res>>

\* s.replace(/\/$/, '')
TrimSlash(s) ==
  IF Len(s) > 0 /\ s[Len(s)] = "/" THEN SubSeq(s, 1, Len(s) - 1) ELSE s

\* s.replace(/^\//, '')
TrimLead(s) == IF Len(s) > 0 /\ s[1] = "/" THEN Tail(s) ELSE s

\* s.startsWith(prefix)
StartsWith(s, prefix) == IsAt(s, prefix, 1)

\* The name under which uploadFileToOss puts, and fileExistsInOss looks for,
\* the local object objectName in the master's storage: uploadPath is
\* prepended unless the name starts with it.
OssObjectName(config, objectName) ==
  LET uploadPath == TrimSlash(config.uploadPath) IN
  IF uploadPath # <<>> /\ ~StartsWith(objectName, uploadPath \o <<"/">>)
  THEN uploadPath \o <<"/">> \o objectName
  ELSE objectName

\* minioUrlToOssUrl(minioUrl)
MinioUrlToOssUrl(config, minioUrl) ==
  LET minioBaseUrl == TrimSlash(config.minio)
      ossBaseUrl == TrimSlash(config.oss)
      path == TrimLead(StrReplace(minioUrl, minioBaseUrl, <<>>))
      ossPath == IF config.uploadPath # <<>>
                 THEN TrimSlash(config.uploadPath) \o <<"/">> \o path
                 ELSE path
  IN IF minioUrl # <<>> /\ StrIncludes(minioUrl, minioBaseUrl)
     THEN ossBaseUrl \o <<"/">> \o ossPath
     ELSE minioUrl

\* ossUrlToMinioUrl(ossUrl)
OssUrlToMinioUrl(config, ossUrl) ==
  LET ossBaseUrl == TrimSlash(config.oss)
      minioBaseUrl == TrimSlash(config.minio)
      rest == TrimLead(StrReplace(ossUrl, ossBaseUrl, <<>>))
      uploadPrefix == TrimSlash(config.uploadPath) \o <<"/">>
      path == IF config.uploadPath # <<>> /\ StartsWith(rest, uploadPrefix)
              THEN SubSeq(rest, Len(uploadPrefix) + 1, Len(rest))
              ELSE rest
  IN IF ossUrl # <<>> /\ StrIncludes(ossUrl, ossBaseUrl)
     THEN minioBaseUrl \o <<"/">> \o path
     ELSE ossUrl

\* A media call of process p ends: media.last keeps what it was and whether
\* it succeeded.
MediaDone(p, fn, ok, newMedia) ==
  /\ media' = [newMedia EXCEPT !.last = [fn |-> fn, url |-> loc[p].url,
                                        path |-> loc[p].path, ok |-> ok]]
  /\ Return(p, loc[p])

\* syncContentMedia(data) on a replica for a payload with the one URL url:
\* extractMediaUrls, ensureBucket, urlToObjectPath.
SyncContentMedia(p, url) ==
  /\ pc[p] = "idle"
  /\ mode = "replica"
  /\ media.last.fn = "none"
  /\ LET objectPath == UrlToObjectPath(media.config, url) IN
     IF ~StrIncludes(url, media.config.oss) \/ objectPath = <<>>
     THEN /\ UNCHANGED <<pc, loc>>
          /\ media' = [media EXCEPT !.last = [fn |-> "syncContentMedia", url |-> url,
                                              path |-> <<>>, ok |-> FALSE]]
     ELSE /\ Goto(p, "scm_exists", [IdleLoc EXCEPT !.h = "syncContentMedia",
                                                   !.url = url, !.path = objectPath])
          /\ UNCHANGED media
  /\ UNCHANGED nonMediaVars

\* syncContentMedia, await fileExistsInMinio(objectPath): an object that is
\* there is skipped.
ScmExists(p) ==
  /\ pc[p] = "scm_exists"
  /\ IF loc[p].path \in media.minio
     THEN MediaDone(p, "syncContentMedia", TRUE, media)
     ELSE /\ Goto(p, "sf_get", loc[p])
          /\ UNCHANGED media
  /\ UNCHANGED nonMediaVars

\* syncFile(objectName), await ossClient.getObject and statObject: they throw
\* for an object that the master's storage does not have.
SyncFileGet(p) ==
  /\ pc[p] = "sf_get"
  /\ IF loc[p].path \in media.oss
     THEN /\ Goto(p, "sf_put", loc[p])
          /\ UNCHANGED media
     ELSE MediaDone(p, "syncContentMedia", FALSE, media)
  /\ UNCHANGED nonMediaVars

\* syncFile, await minioClient.putObject(config.minio.bucket, objectName, ...).
SyncFilePut(p) ==
  /\ pc[p] = "sf_put"
  /\ MediaDone(p, "syncContentMedia", TRUE, [media EXCEPT !.minio = @ \cup {loc[p].path}])
  /\ UNCHANGED nonMediaVars

\* syncContentMediaToOss(data) on a replica for a payload with the one local
\* object path objectPath, first await: fileExistsInMinio.
SyncContentMediaToOss(p, objectPath) ==
  /\ pc[p] = "idle"
  /\ mode = "replica"
  /\ media.last.fn = "none"
  /\ LET l == [IdleLoc EXCEPT !.h = "syncContentMediaToOss", !.path = objectPath,
                              !.url = GetMinioUrl(media.config, objectPath)] IN
     IF objectPath \in media.minio
     THEN /\ Goto(p, "smo_exists", l)
          /\ UNCHANGED media
     ELSE /\ UNCHANGED <<pc, loc>>
          /\ media' = [media EXCEPT !.last = [fn |-> "syncContentMediaToOss",
                                              url |-> l.url, path |-> objectPath,
                                              ok |-> FALSE]]
  /\ UNCHANGED nonMediaVars

\* syncContentMediaToOss, await fileExistsInOss(objectPath): an object that
\* is there counts as synced.
SmoExists(p) ==
  /\ pc[p] = "smo_exists"
  /\ IF OssObjectName(media.config, loc[p].path) \in media.oss
     THEN MediaDone(p, "syncContentMediaToOss", TRUE, media)
     ELSE /\ Goto(p, "up_get", loc[p])
          /\ UNCHANGED media
  /\ UNCHANGED nonMediaVars

\* uploadFileToOss(objectName), await minioClient.getObject and statObject.
UploadGet(p) ==
  /\ pc[p] = "up_get"
  /\ IF loc[p].path \in media.minio
     THEN /\ Goto(p, "up_put", loc[p])
          /\ UNCHANGED media
     ELSE MediaDone(p, "syncContentMediaToOss", FALSE, media)
  /\ UNCHANGED nonMediaVars

\* uploadFileToOss, await ossClient.putObject(config.oss.bucket, ossObjectName, ...).
UploadPut(p) ==
  /\ pc[p] = "up_put"
  /\ MediaDone(p, "syncContentMediaToOss", TRUE,
               [media EXCEPT !.oss = @ \cup {OssObjectName(media.config, loc[p].path)}])
  /\ UNCHANGED nonMediaVars

\* ------------------------------------- the middleware and the bus messages
\* Everything but the bus messages of the middleware.
nonWireVars ==
  <<envVars, dbVars, flags, pc, loc, scen, lastVer, incs, sent, dlv, outcome, calc,
    shipVars, bootVars, media, serve, monitor, res>>

Docs == {"d1", "d2"}          \* documentIds
Locales == {"en", "fr"}
WireOps == {"create", "update", "delete"}

\* What the document call returned (syncData).
SyncData == JObj({<<"title", JStr("s")>>})

\* `master-${Date.now()}-${documentId}`: the three parts of the string.
DirectMessageId(now, documentId) == <<"master", now, documentId>>

\* `master-queued-${Date.now()}-${item.content_id}`
QueuedMessageId(now, contentId) == <<"master-queued", now, contentId>>

\* operation !== 'delete' ? stripSensitiveData(syncData) : null
SafeData(operation, syncData) ==
  IF operation # "delete" THEN StripSensitiveData(syncData) ELSE JNull

\* { ...safeData }: the spread of null is the empty object.
QueueData(safeData) == IF safeData = JNull THEN JObj({}) ELSE safeData

\* item.data || {}
ItemData(data) == IF data = JNull THEN JObj({}) ELSE data

\* The message of the master's direct broadcast.
DirectMessage(now, documentId, locale, operation, safeData) ==
  [messageId |-> DirectMessageId(now, documentId), shipId |-> "master",
   operation |-> operation, contentId |-> documentId, version |-> 0,
   data |-> safeData, locale |-> locale]

\* The message of a drained item of the master's queue.
DrainedMessage(now, item) ==
  [messageId |-> QueuedMessageId(now, item.contentId), shipId |-> "master",
   operation |-> item.operation, contentId |-> item.contentId, version |-> 0,
   data |-> ItemData(item.data), locale |-> item.locale]

\* The pending row of a queue (a sequence of rows) for a document and locale.
PendingAt(q, contentId, locale) ==
  {i \in DOMAIN q : /\ q[i].status = "pending"
                    /\ q[i].contentId = contentId
                    /\ q[i].locale = locale}

\* enqueue of a queue: a pending row of the same document and locale is
\* overwritten and its retryCount reset, else a row is appended.
Enqueued(q, e) ==
  LET row == [contentId |-> e.contentId, locale |-> e.locale,
              operation |-> e.operation, version |-> e.version, data |-> e.data,
              status |-> "pending", retryCount |-> 0]
      at == PendingAt(q, e.contentId, e.locale)
  IN IF at # {}
     THEN [q EXCEPT ![CHOOSE i \in at : TRUE] = row]
     ELSE Append(q, row)

\* The master branch of the middleware for an edit of the admin: the message
\* is published when the producer is connected, else handed to the master's
\* queue with data = { ...safeData } and no version.
MwMasterBus(documentId, locale, operation) ==
  /\ mode = "master"
  /\ ~flags.fromShip
  /\ wire.edits < MaxWireEdits
  /\ LET safeData == SafeData(operation, SyncData) IN
     IF wire.connected
     THEN wire' = [wire EXCEPT
            !.edits = @ + 1,
            !.out = Append(@, DirectMessage(wire.now, documentId, locale, operation,
                                            safeData))]
     ELSE wire' = [wire EXCEPT
            !.edits = @ + 1,
            !.mq = Enqueued(@, [contentId |-> documentId, locale |-> locale,
                                operation |-> operation, version |-> 0,
                                data |-> QueueData(safeData)])]
  /\ UNCHANGED nonWireVars

\* The replica branch of the middleware for a local edit: the version is
\* incremented but for a delete, and the edit is enqueued.
MwReplicaBus(documentId, locale, operation) ==
  /\ mode = "replica"
  /\ ~flags.fromMaster
  /\ wire.edits < MaxWireEdits
  /\ LET version == IF operation # "delete" THEN wire.ver[documentId] + 1 ELSE 0
         queued == Enqueued(wire.rq, [contentId |-> documentId, locale |-> locale,
                                      operation |-> operation, version |-> version,
                                      data |-> SafeData(operation, SyncData)])
     IN wire' = [wire EXCEPT
          !.edits = @ + 1,
          !.ver = IF operation # "delete" THEN [@ EXCEPT ![documentId] = version] ELSE @,
          !.rq = queued]
  /\ UNCHANGED nonWireVars

\* The calls of masterAutoPushCheck that may be under way together: the one
\* of a timer tick and the one of the tick before it (setInterval does not
\* wait for the call it made).
DrainPasses == {"tick1", "tick2"}

\* masterAutoPushCheck up to the dequeue: nothing during shutdown, without
\* pending rows or without the producer; else the pending rows, oldest first.
\* wire.batch[k] is what is left of `pending` in the call k.
MasterAutoPushCheck(k) ==
  /\ mode = "master"
  /\ ~shut.flag
  /\ wire.batch[k] = <<>>
  /\ \E i \in DOMAIN wire.mq : wire.mq[i].status = "pending"
  /\ wire.connected
  /\ wire' = [wire EXCEPT !.batch[k] = SelectSeq([i \in DOMAIN wire.mq |-> i],
                                LAMBDA i : wire.mq[i].status = "pending")]
  /\ UNCHANGED nonWireVars

\* masterAutoPushCheck, one item of the loop: the message is built and sent
\* and the row marked sent; when the send throws, the row is marked failed.
DrainItem(k) ==
  /\ wire.batch[k] # <<>>
  /\ LET i == Head(wire.batch[k])
         item == wire.mq[i]
         retries == item.retryCount + 1
     IN IF wire.connected
        THEN wire' = [wire EXCEPT
               !.batch[k] = Tail(@),
               !.out = Append(@, DrainedMessage(wire.now, item)),
               !.pubs = Append(@, i),
               !.mq = [@ EXCEPT ![i].status = "sent"]]
        ELSE wire' = [wire EXCEPT
               !.batch[k] = Tail(@),
               !.mq = [@ EXCEPT ![i].retryCount = retries,
                                ![i].status = IF retries >= MaxRetries
                                              THEN "failed" ELSE @]]
  /\ UNCHANGED nonWireVars

\* The producer loses or regains its connection.
ProducerChange ==
  /\ wire.drops < MaxDrops
  /\ wire' = [wire EXCEPT !.connected = ~@, !.drops = @ + 1]
  /\ UNCHANGED nonWireVars

\* A millisecond passes.
Millisecond ==
  /\ wire.now < MaxMs
  /\ wire' = [wire EXCEPT !.now = @ + 1]
  /\ UNCHANGED nonWireVars

\* ------------------------------------------------ master: GET /sync/pull
\* Everything but the processes, the tables and the pull history.
nonServeVars ==
  <<linkVars, flags, scen, incs, sent, dlv, outcome, calc, report, bootVars, media,
    wire, monitor, res>>

\* A Date as it is stored: the ISO string of the millisecond.
StampOf(ms) == "t" \o ToString(ms)
MsOf(stamp) == CHOOSE ms \in 0..MaxStamp : StampOf(ms) = stamp

\* The lifecycle hooks of a master for an edit of the admin: afterCreate and
\* afterUpdate call incrementVersion(contentType, id, 'master'), afterDelete
\* deletes the sync metadata.  serve.modAt keeps the time of the edit.
MasterHook(p, action, e, d) ==
  /\ pc[p] = "idle"
  /\ mode = "master"
  /\ action \in {"create", "update", "delete"}
  /\ count.edits < MaxEdits
  /\ count' = [count EXCEPT !.edits = @ + 1]
  /\ CmsApply(action, e, d)
  /\ serve' = [serve EXCEPT !.modAt[e] = clock]
  /\ LET l == [IdleLoc EXCEPT !.h = "hook", !.e = e, !.op = action, !.by = "master"] IN
     IF action = "delete"
     THEN Goto(p, "hk_delete", l)
     ELSE Call(p, "inc_find", "hk_ret", l)
  /\ UNCHANGED <<meta, queue, conflicts, nextId, lastVer, shipVars, nonServeVars>>

\* afterDelete, await syncMetadata.delete({contentType, entityId}).
HookDelete(p) ==
  /\ pc[p] = "hk_delete"
  /\ meta' = meta \ MetaRows(loc[p].e)
  /\ Return(p, loc[p])
  /\ UNCHANGED <<entity, queue, conflicts, nextId, lastVer, count, serve, shipVars,
                 nonServeVars>>

\* afterCreate / afterUpdate on a master, after incrementVersion: nothing is
\* enqueued.
HookReturn(p) ==
  /\ pc[p] = "hk_ret"
  /\ Return(p, loc[p])
  /\ UNCHANGED <<dbVars, lastVer, count, serve, shipVars, nonServeVars>>

\* where.lastSyncedAt = { $gt: new Date(lastSyncTimestamp) }, or
\* { $notNull: true } without a timestamp (since = 0).
PullWhere(m, since) ==
  /\ m.lastSyncedAt # "null"
  /\ since # 0 => MsOf(m.lastSyncedAt) > since

\* orderBy: { lastSyncedAt: 'asc' }: the rows of a set, oldest first.
RECURSIVE BySyncTime(_)
BySyncTime(rows) ==
  IF rows = {} THEN <<>>
  ELSE LET m == CHOOSE r \in rows :
                  \A o \in rows : MsOf(r.lastSyncedAt) < MsOf(o.lastSyncedAt)
                                  \/ (r.lastSyncedAt = o.lastSyncedAt /\ r.id <= o.id)
       IN <<m>> \o BySyncTime(rows \ {m})

\* pull(ctx) on the master for shipId = ship and lastSyncTimestamp = since
\* (0: none), up to the first await: recordShipActivity, findOne({shipId}).
PullServe(p, ship, since) ==
  /\ pc[p] = "idle"
  /\ mode = "master"
  /\ ~serve.asked
  /\ \E x \in {0} \cup {r.id : r \in SessionsOf(ship)} :
       /\ (x = 0) = (SessionsOf(ship) = {})
       /\ Goto(p, "sp_record", [IdleLoc EXCEPT !.h = "serve", !.ship = ship, !.x = x,
                                               !.at = since])
  /\ UNCHANGED <<dbVars, lastVer, count, serve, shipVars, nonServeVars>>

\* pull, recordShipActivity, second await: the session is updated or created.
ServeRecord(p) ==
  /\ pc[p] = "sp_record"
  /\ sessions' =
       IF loc[p].x # 0
       THEN {IF r.id = loc[p].x THEN [r EXCEPT !.lastSeenAt = clock, !.isOnline = TRUE]
             ELSE r : r \in sessions}
       ELSE sessions \cup {NewSession(Cardinality(sessions) + 1, loc[p].ship, clock)}
  /\ Goto(p, "sp_query", loc[p])
  /\ UNCHANGED <<dbVars, lastVer, count, serve, clock, report, nonServeVars>>

\* pull, await syncMetadata.findMany({where, orderBy}).
ServeQuery(p) ==
  /\ pc[p] = "sp_query"
  /\ Goto(p, "sp_item",
          [loc[p] EXCEPT !.todo = BySyncTime({m \in meta : PullWhere(m, loc[p].at)}),
                         !.upd = {}, !.cf = {}])
  /\ UNCHANGED <<dbVars, lastVer, count, serve, shipVars, nonServeVars>>

\* pull, the loop: an entity seen before is skipped; else await
\* entityService.findOne, and an update with the entity and the row's
\* version, or a delete, is pushed.  After the loop updateShipSyncStatus
\* (whose fields the sessions here do not have) and the body.
ServeItem(p) ==
  /\ pc[p] = "sp_item"
  /\ LET l == loc[p] IN
     IF l.todo = <<>>
     THEN /\ serve' = [serve EXCEPT !.asked = TRUE, !.since = l.at, !.changes = l.upd,
                                    !.seen = serve.modAt]
          /\ Return(p, l)
     ELSE LET m == Head(l.todo)
              change == IF entity[m.entityId] # Null
                        THEN [e |-> m.entityId, op |-> "update",
                              d |-> entity[m.entityId], v |-> m.syncVersion]
                        ELSE [e |-> m.entityId, op |-> "delete", d |-> Null,
                              v |-> m.syncVersion]
          IN /\ Goto(p, "sp_item",
                     [l EXCEPT !.todo = Tail(@),
                               !.cf = @ \cup {m.entityId},
                               !.upd = IF m.entityId \in l.cf THEN @
                                       ELSE @ \cup {change}])
             /\ UNCHANGED serve
  /\ UNCHANGED <<dbVars, lastVer, count, shipVars, nonServeVars>>

\* A millisecond passes on the master.
ServeTick ==
  /\ clock < MaxStamp
  /\ clock' = clock + 1
  /\ UNCHANGED <<envVars, dbVars, flags, pc, loc, scen, lastVer, incs, sent, dlv, outcome,
                 calc, sessions, report, bootVars, media, wire, serve, monitor, res>>

\* ------------------------------------------- replica: the connectivity tracker
\* Everything but the processes and the connectivity tracker.
nonMonitorVars ==
  <<envVars, dbVars, flags, scen, lastVer, incs, sent, dlv, outcome, calc, shipVars,
    bootVars, media, wire, serve, res>>

\* connectivityState as constructed; a Date is the number of the check that
\* set it, 0 stands for null.
InitialConnectivity ==
  [isOnline |-> FALSE, lastChecked |-> 0, lastSuccess |-> 0, lastFailure |-> 0,
   consecutiveFailures |-> 0, consecutiveSuccesses |-> 0]

\* No check has completed.
NoCheck ==
  [done |-> FALSE, probed |-> FALSE, reached |-> FALSE, isOnline |-> FALSE,
   before |-> InitialConnectivity, after |-> InitialConnectivity]

\* isMasterOnline() of the sync service with masterUrl configured: true when
\* the GET of /api/sync/status succeeds, false when it fails or times out;
\* the error is caught, nothing is thrown.
IsMasterOnline(reached) == [threw |-> FALSE, value |-> reached]

\* The state after a check whose await threw or did not.
CheckedState(state, threw, n) ==
  IF ~threw
  THEN [isOnline |-> TRUE, lastChecked |-> n, lastSuccess |-> n,
        lastFailure |-> state.lastFailure, consecutiveFailures |-> 0,
        consecutiveSuccesses |-> state.consecutiveSuccesses + 1]
  ELSE [isOnline |-> FALSE, lastChecked |-> n, lastSuccess |-> state.lastSuccess,
        lastFailure |-> n, consecutiveFailures |-> state.consecutiveFailures + 1,
        consecutiveSuccesses |-> 0]

\* checkConnectivity() up to its await: without masterUrl it returns
\* isOnline false and leaves the state alone; else the probe is sent.
CheckConnectivity(p) ==
  /\ pc[p] = "idle"
  /\ monitor.checks < MaxChecks
  /\ IF ~monitor.masterUrl
     THEN /\ monitor' = [monitor EXCEPT
                 !.checks = @ + 1,
                 !.last = [done |-> TRUE, probed |-> FALSE, reached |-> FALSE,
                           isOnline |-> FALSE, before |-> monitor.state,
                           after |-> monitor.state]]
          /\ UNCHANGED <<pc, loc>>
     ELSE /\ monitor' = [monitor EXCEPT !.checks = @ + 1]
          /\ Goto(p, "cc_probe", [IdleLoc EXCEPT !.h = "check", !.n = monitor.checks + 1])
  /\ UNCHANGED nonMonitorVars

\* checkConnectivity, await syncService.isMasterOnline() and what follows:
\* the value it resolves with is not looked at; the state is set by whether
\* the await threw.
CheckProbe(p) ==
  /\ pc[p] = "cc_probe"
  /\ LET r == IsMasterOnline(masterUp)
         after == CheckedState(monitor.state, r.threw, loc[p].n)
     IN monitor' = [monitor EXCEPT
          !.state = after,
          !.last = [done |-> TRUE, probed |-> TRUE, reached |-> masterUp,
                    isOnline |-> ~r.threw, before |-> monitor.state, after |-> after]]
  /\ Return(p, loc[p])
  /\ UNCHANGED nonMonitorVars

\* detectConflict(local, remote) of the version tracker, called on its own;
\* without one of the two there is no conflict.
DetectConflictCall ==
  /\ calc.fn = "detectConflict" /\ ~calc.done
  /\ LET a == calc.arg IN
     calc' = [calc EXCEPT
       !.res = IF a.local = Null \/ a.remote = Null
               THEN [hasConflict |-> FALSE, conflictingFields |-> {},
                     conflictType |-> "none"]
               ELSE DetectConflict(a.local, a.localVersion, a.remote, a.remoteVersion),
       !.done = TRUE]
  /\ UNCHANGED <<envVars, dbVars, flags, pc, loc, scen, lastVer, incs, sent, dlv,
                 outcome, shipVars, bootVars, media, wire, serve, monitor, res>>

\* ---------------------------------------- media sync: file rows on the master
\* idMapping.set(key, value)
MapSet(map, key, value) == {kv \in map : kv[1] # key} \cup {<<key, value>>}

\* The row that createFileRecordFromReplica creates for a record of a
\* replica: the hash of the record, the URL rewritten to the master's.
FileRow(id, fileData) ==
  [id |-> id, hash |-> fileData.hash,
   url |-> MinioUrlToOssUrl(media.config, fileData.url), provider |-> "aliyun-oss"]

\* processReplicaFileRecords(fileRecords) on the master, up to the loop.
ProcessReplicaFileRecords(p, fileRecords) ==
  /\ pc[p] = "idle"
  /\ mode = "master"
  /\ media.calls < MaxFileCalls
  /\ media' = [media EXCEPT !.calls = @ + 1]
  /\ Goto(p, "prf_find", [IdleLoc EXCEPT !.h = "processReplicaFileRecords",
                                         !.todo = fileRecords, !.map = {}])
  /\ UNCHANGED nonMediaVars

\* processReplicaFileRecords, the loop: await findOne({where: {hash}}); a
\* row found is mapped to, else the row is to be created.  After the loop
\* the mapping is returned (media.mapped keeps what it maps each hash to).
PrfFind(p) ==
  /\ pc[p] = "prf_find"
  /\ LET l == loc[p] IN
     IF l.todo = <<>>
     THEN /\ media' = [media EXCEPT !.mapped = @ \cup l.upd]
          /\ Return(p, l)
     ELSE LET fileData == Head(l.todo)
              found == {r \in media.files : r.hash = fileData.hash}
          IN /\ UNCHANGED media
             /\ IF found # {}
                THEN \E existing \in found :
                       Goto(p, "prf_find",
                            [l EXCEPT !.todo = Tail(@),
                                      !.map = MapSet(@, fileData.id, existing.id),
                                      !.upd = {u \in @ : u.id # fileData.id}
                                              \cup {[id |-> fileData.id,
                                                     hash |-> fileData.hash,
                                                     to |-> existing.id]}])
                ELSE Goto(p, "prf_create", l)
  /\ UNCHANGED nonMediaVars

\* createFileRecordFromReplica(fileData), await create, and the mapping of
\* the record's id to the row created.
PrfCreate(p) ==
  /\ pc[p] = "prf_create"
  /\ LET l == loc[p]
         fileData == Head(l.todo)
         created == FileRow(Cardinality(media.files) + 1, fileData)
     IN /\ media' = [media EXCEPT !.files = @ \cup {created}]
        /\ Goto(p, "prf_find",
                [l EXCEPT !.todo = Tail(@),
                          !.map = MapSet(@, fileData.id, created.id),
                          !.upd = {u \in @ : u.id # fileData.id}
                                  \cup {[id |-> fileData.id, hash |-> fileData.hash,
                                         to |-> created.id]}])
  /\ UNCHANGED nonMediaVars

\* ------------------------------------------ conflict resolver: resolveConflict
\* autoMerge(local, remote): the local fields, and the remote fields that the
\* local side does not have, but for id, createdAt, updatedAt, syncVersion.
AutoMerge(local, remote) ==
  local \cup {kv \in remote : /\ kv[1] \notin {"id", "createdAt", "updatedAt", "syncVersion"}
                             /\ kv[1] \notin Keys(local)}

\* The switch on the resolution; mergedData || autoMerge(localData, remoteData).
FinalData(c, resolution, mergedData) ==
  CASE resolution = "keep_local" -> c.localData
    [] resolution = "keep_remote" -> c.remoteData
    [] resolution = "merge" -> IF mergedData # Null THEN mergedData
                               ELSE AutoMerge(c.localData, c.remoteData)

\* The location the lifecycle hooks hand to incrementVersion.
HookLocation == IF mode = "replica" THEN "local" ELSE "master"

\* The id the CMS gives to the next entity it creates.
FreshId == "n" \o ToString(Cardinality(res.created) + 1)

\* resolveConflict(conflictId, resolution, mergedData), first await:
\* conflictLog.findOne({id}).  An unknown or resolved conflict throws; else
\* the final data is chosen.  loc.n is the conflict, loc.src the resolution,
\* loc.res the final data.
ResolveConflict(p, conflictId, resolution, mergedData) ==
  /\ pc[p] = "idle"
  /\ res.calls < MaxResolves
  /\ LET found == {c \in conflicts : c.id = conflictId} IN
     IF found = {} \/ \E c \in found : c.status = "resolved"
     THEN /\ res' = [res EXCEPT !.calls = @ + 1,
                                !.errors = @ \cup {[id |-> conflictId, call |-> res.calls + 1]}]
          /\ UNCHANGED <<pc, loc>>
     ELSE \E c \in found :
            /\ res' = [res EXCEPT !.calls = @ + 1]
            /\ Goto(p, "rc_entity",
                    [IdleLoc EXCEPT !.h = "resolve", !.n = conflictId, !.e = c.entityId,
                                    !.ship = c.entityId, !.src = resolution,
                                    !.res = FinalData(c, resolution, mergedData)])
  /\ UNCHANGED <<envVars, dbVars, flags, scen, lastVer, incs, sent, dlv, outcome, calc,
                 shipVars, bootVars, media, wire, serve, monitor>>

\* resolveConflict, await entityService.findOne(contentType, entityId).
\* loc.on is whether the entity was found.
RcEntity(p) ==
  /\ pc[p] = "rc_entity"
  /\ Goto(p, "rc_write", [loc[p] EXCEPT !.on = (entity[loc[p].ship] # Null)])
  /\ UNCHANGED <<envVars, dbVars, flags, histVars>>

\* resolveConflict, the write to the CMS.  Without the entity, keep_local and
\* merge create an entity: the CMS gives it an id, the id of the payload when
\* it honours one, a new id otherwise (sameId); the afterCreate hook follows.
\* keep_remote writes nothing.  With the entity, it is updated (nothing is
\* written when it was deleted since) and the afterUpdate hook follows:
\* incrementVersion, and the enqueue on a replica.
RcWrite(p, sameId) ==
  /\ pc[p] = "rc_write"
  /\ LET l == loc[p] IN
     IF ~l.on /\ l.src = "keep_remote"
     THEN /\ ~sameId
          /\ Goto(p, "rc_mark", l)
          /\ UNCHANGED <<entity, res>>
     ELSE IF ~l.on /\ (~sameId \/ entity[l.ship] # Null)
     THEN /\ ~sameId
          /\ res' = [res EXCEPT
                      !.created = @ \cup {[id |-> FreshId, d |-> l.res]},
                      !.writes = @ \cup {[p |-> p, id |-> l.n, holder |-> FreshId]}]
          /\ Goto(p, "rc_fresh", [l EXCEPT !.e = FreshId, !.op = "create",
                                           !.d = l.res, !.by = HookLocation])
          /\ UNCHANGED entity
     ELSE /\ l.on => ~sameId
          /\ entity' = IF l.on /\ entity[l.ship] = Null
                       THEN entity
                       ELSE [entity EXCEPT ![l.ship] = l.res]
          /\ res' = [res EXCEPT !.writes = @ \cup {[p |-> p, id |-> l.n, holder |-> l.ship]}]
          /\ Call(p, "inc_find", "rc_hook",
                  [l EXCEPT !.op = IF l.on THEN "update" ELSE "create",
                            !.d = l.res, !.by = HookLocation])
  /\ UNCHANGED <<envVars, meta, queue, conflicts, nextId, flags, scen, lastVer, incs, sent,
                 dlv, outcome, calc, shipVars, bootVars, media, wire, serve, monitor>>

\* afterCreate of the entity created, incrementVersion: the new id has no
\* metadata, a row with version 1 is created.
RcFresh(p) ==
  /\ pc[p] = "rc_fresh"
  /\ nextId.meta <= MaxRows + MaxResolves
  /\ meta' = meta \cup {NewMetaRow(nextId.meta, loc[p].e, loc[p].by)}
  /\ nextId' = [nextId EXCEPT !.meta = @ + 1]
  /\ Goto(p, "rc_hook", [loc[p] EXCEPT !.v = 1])
  /\ UNCHANGED <<envVars, entity, queue, conflicts, flags, histVars>>

\* The hook after incrementVersion: a replica enqueues the operation.
RcHook(p) ==
  /\ pc[p] = "rc_hook"
  /\ IF mode = "replica"
     THEN Call(p, "enq_find", "rc_mark", loc[p])
     ELSE Goto(p, "rc_mark", loc[p])
  /\ UNCHANGED <<envVars, dbVars, flags, histVars>>

\* resolveConflict, await conflictLog.update({id}): resolved, with the
\* resolution and the final data; then markSynced(contentType, entityId).
RcMark(p) ==
  /\ pc[p] = "rc_mark"
  /\ conflicts' = {IF c.id = loc[p].n
                   THEN [localData |-> c.localData, remoteData |-> c.remoteData,
                         id |-> c.id, entityId |-> c.entityId,
                         conflictingFields |-> c.conflictingFields,
                         conflictType |-> c.conflictType, status |-> "resolved",
                         resolution |-> loc[p].src, mergedData |-> loc[p].res]
                   ELSE c : c \in conflicts}
  /\ Call(p, "ms_find", "rc_done", [loc[p] EXCEPT !.e = loc[p].ship])
  /\ UNCHANGED <<envVars, entity, meta, queue, nextId, flags, histVars>>

\* resolveConflict returns.  res.last keeps the call: the entity that holds
\* the payload is the one updated or the one created ("none": nothing written).
RcDone(p) ==
  /\ pc[p] = "rc_done"
  /\ LET l == loc[p]
         made == {w \in res.writes : w.p = p /\ w.id = l.n}
         holder == IF made = {} THEN "none" ELSE (CHOOSE w \in made : TRUE).holder
     IN res' = [res EXCEPT !.last = [ok |-> TRUE, id |-> l.n, resolution |-> l.src,
                                     final |-> l.res, holder |-> holder]]
  /\ Return(p, loc[p])
  /\ UNCHANGED <<envVars, dbVars, flags, scen, lastVer, incs, sent, dlv, outcome, calc,
                 shipVars, bootVars, media, wire, serve, monitor>>

\* --------------------------------------------------------------- environment
\* The link to the peer goes down or comes up.
NetChange ==
  /\ masterUp' = ~masterUp
  /\ scen' = [e \in Entities |-> IF scen[e] = "none" THEN "none" ELSE "void"]
  /\ UNCHANGED <<mode, bus, count, dbVars, flags, pc, loc, lastVer, incs, sent, dlv, outcome, sideVars>>

\* ------------------------------------------------------------ specifications
Actions == {"create", "update", "delete", "publish"}

InitProcs ==
  /\ flags = [fromMaster |-> FALSE, fromShip |-> FALSE]
  /\ bus = [logged |-> {}, published |-> {}, queued |-> {}]
  /\ count = [edits |-> 0, pushes |-> 0, fails |-> 0, reqs |-> 0]
  /\ pc = [p \in Procs |-> "idle"]
  /\ loc = [p \in Procs |-> IdleLoc]
  /\ sent = {}
  /\ dlv = [st |-> "none", chg |-> <<>>, after |-> <<>>]
  /\ outcome = [st |-> "none", same |-> TRUE, fail |-> FALSE]

\* No ship has been seen yet.
InitShips ==
  /\ sessions = {}
  /\ clock = 0
  /\ report = NoReport

NoChain ==
  [st |-> "none", attempt |-> 0, maxRetries |-> 0, delay |-> 0, bg |-> FALSE,
   tries |-> 0, waits |-> <<>>]

NoTimers ==
  [monitor |-> FALSE, heartbeat |-> FALSE, autoPush |-> FALSE, debounce |-> {}, recon |-> {},
   polls |-> 0]

IdlePush ==
  [isPushing |-> FALSE, pushQueue |-> 0, wasOffline |-> FALSE, pending |-> 0,
   exec |-> "idle", by |-> "none", late |-> FALSE, immediate |-> FALSE, auto |-> "idle", autoAt |-> 0,
   rpush |-> "idle", reconAt |-> {}]

\* No bootstrap under way: connected, no timer set, nothing shut down.
InitBoot ==
  /\ conn = NoChain
  /\ shut = [flag |-> FALSE, cleaned |-> FALSE]
  /\ net = [reachable |-> TRUE, producer |-> TRUE, online |-> TRUE, flaps |-> 0]
  /\ timers = NoTimers
  /\ push = IdlePush
  /\ started = [kind |-> "none", tick |-> FALSE]

\* Media sync with the master's base URL h and the local one m, nothing
\* stored yet.
NoMediaCall == [fn |-> "none", url |-> <<>>, path |-> <<>>, ok |-> FALSE]

BaseConfig == [oss |-> <<"h">>, minio |-> <<"m">>, uploadPath |-> <<>>]

\* No conflict was resolved.
NoResolve ==
  [ok |-> FALSE, id |-> 0, resolution |-> "none", final |-> Null, holder |-> "none"]

InitRes ==
  res = [calls |-> 0, errors |-> {}, writes |-> {}, created |-> {}, last |-> NoResolve]

\* No pull was served.
InitServe ==
  serve = [modAt |-> [e \in Entities |-> 0], asked |-> FALSE, since |-> 0,
           changes |-> {}, seen |-> [e \in Entities |-> 0]]

\* The connectivity tracker as constructed, masterUrl configured.
InitMonitor ==
  monitor = [masterUrl |-> TRUE, state |-> InitialConnectivity, last |-> NoCheck,
             checks |-> 0]

\* No edit was made: the producer is connected, the queues are empty.
InitWire ==
  wire = [now |-> 0, connected |-> TRUE, drops |-> 0, mq |-> <<>>,
          batch |-> [k \in DrainPasses |-> <<>>], pubs |-> <<>>,
          rq |-> <<>>, out |-> <<>>, ver |-> [d \in Docs |-> 0], edits |-> 0]

InitMedia ==
  media = [config |-> BaseConfig, oss |-> {}, minio |-> {}, files |-> {},
           last |-> NoMediaCall, calls |-> 0, mapped |-> {}]

\* A fresh installation: no entity, empty tables.
InitDb ==
  /\ entity = [e \in Entities |-> Null]
  /\ meta = {}
  /\ queue = {}
  /\ conflicts = {}
  /\ nextId = [meta |-> 1, queue |-> 1, conflicts |-> 1]
  /\ scen = [e \in Entities |-> "none"]
  /\ lastVer = [e \in Entities |-> 0]
  /\ incs = [e \in Entities |-> 0]

\* The replica after a user created e1 offline and MaxRetries - 1 pushes of
\* the queued create failed: one more failure exhausts the retries.
InitRetried ==
  /\ entity = [e \in Entities |-> IF e = "e1" THEN {<<"title", "A">>} ELSE Null]
  /\ meta = {NewMetaRow(1, "e1", "ship")}
  /\ queue = {[id |-> 1, entityId |-> "e1", operation |-> "create",
               data |-> {<<"title", "A">>}, version |-> 1, status |-> "pending",
               location |-> "ship", retryCount |-> MaxRetries - 1,
               errorMessage |-> "error", syncedAt |-> "null"]}
  /\ conflicts = {}
  /\ nextId = [meta |-> 2, queue |-> 2, conflicts |-> 1]
  /\ scen = [e \in Entities |-> IF e = "e1" THEN "created" ELSE "none"]
  /\ lastVer = [e \in Entities |-> IF e = "e1" THEN 1 ELSE 0]
  /\ incs = [e \in Entities |-> IF e = "e1" THEN 1 ELSE 0]

\* The replica with its outbound queue: user edits, pushes, queue maintenance.
InitQueue ==
  /\ mode = "replica"
  /\ masterUp = FALSE
  /\ InitProcs
  /\ calc = NoCalc
  /\ InitShips
  /\ InitBoot
  /\ InitMedia
  /\ InitWire
  /\ InitServe
  /\ InitMonitor
  /\ InitRes
  /\ InitDb \/ InitRetried

NextQueue ==
  \/ \E p \in Procs, a \in Actions, e \in Entities, d \in Payloads : MwNext(p, a, e, d)
  \/ \E p \in Procs : MwReplica(p)
  \/ \E p \in Procs : MwReturn(p)
  \/ \E p \in Procs : IncFind(p)
  \/ \E p \in Procs : IncWrite(p)
  \/ \E p \in Procs : EnqueueFind(p)
  \/ \E p \in Procs : EnqueueWrite(p)
  \/ \E p \in Procs : (count.pushes < MaxPushes \/ count.fails < MaxFails) /\ PushStart(p)
  \/ \E p \in Procs : \E applied \in SUBSET loc[p].snap :
       count.pushes < MaxPushes /\ PushOk(p, applied)
  \/ \E p \in Procs : count.fails < MaxFails /\ PushErr(p)
  \/ \E p \in Procs : PushMark(p)
  \/ \E p \in Procs : PushApply(p)
  \/ \E p \in Procs : PushFail(p)
  \/ \E p \in Procs : MarkFailedFind(p)
  \/ \E p \in Procs : MarkFailedWrite(p)
  \/ \E p \in Procs : ApplyFind(p)
  \/ \E p \in Procs : ApplyMeta(p)
  \/ \E p \in Procs : ApplyConflict(p)
  \/ \E p \in Procs : FlagConflictFind(p)
  \/ \E p \in Procs : FlagConflictWrite(p)
  \/ \E p \in Procs : MetaSyncedFind(p)
  \/ \E p \in Procs : MetaSyncedWrite(p)
  \/ \E p \in Procs : RetryFailedFind(p)
  \/ \E p \in Procs : RetryFailedWrite(p)
  \/ \E old \in SUBSET queue : ClearSynced(old)
  \/ NetChange

SpecQueue == InitQueue /\ [][NextQueue]_vars

\* The replica over time: the edits of MaxEdits document actions, pushes as
\* often as the timer fires them, the link to the master going down and up.
\* One handler runs at a time, so that what a push response reports of an
\* entity is what the replica holds and applyChange finds no conflict.

\* A step of a handler that is under way.
LiveStep(p) ==
  \/ MwReplica(p) \/ MwReturn(p) \/ IncFind(p) \/ IncWrite(p) \/ EnqueueFind(p) \/ EnqueueWrite(p)
  \/ \E applied \in SUBSET loc[p].snap : PushOk(p, applied)
  \/ PushErr(p) \/ PushMark(p) \/ PushApply(p) \/ PushFail(p)
  \/ MarkFailedFind(p) \/ MarkFailedWrite(p)
  \/ ApplyFind(p) \/ ApplyMeta(p)
  \/ MetaSyncedFind(p) \/ MetaSyncedWrite(p)

NextLive ==
  \/ \E p \in SerialProcs, a \in Actions, e \in Entities, d \in Payloads : MwNext(p, a, e, d)
  \/ \E p \in SerialProcs : PushStart(p)
  \/ \E p \in SerialProcs : LiveStep(p)
  \/ NetChange

\* Every await of a handler returns, and the push timer keeps firing: a
\* handler under way takes its next step, and a push starts when the replica
\* is idle with changes pending.
FairLive ==
  \A p \in SerialProcs : WF_vars(LiveStep(p)) /\ WF_vars(PushStart(p))

InitLive ==
  /\ mode = "replica"
  /\ masterUp = FALSE
  /\ InitProcs
  /\ calc = NoCalc
  /\ InitShips
  /\ InitBoot
  /\ InitMedia
  /\ InitWire
  /\ InitServe
  /\ InitMonitor
  /\ InitRes
  /\ InitDb

SpecLive == InitLive /\ [][NextLive]_vars /\ FairLive

\* The replica pulling from the master, and users editing, one handler at a
\* time.  The replica holds nothing of the entity, or the entity with the
\* metadata earlier changes left.
InitPull ==
  /\ mode = "replica"
  /\ masterUp = TRUE
  /\ InitProcs
  /\ calc = NoCalc
  /\ InitShips
  /\ InitBoot
  /\ InitMedia
  /\ InitWire
  /\ InitServe
  /\ InitMonitor
  /\ InitRes
  /\ \/ InitDb
     \/ \E d \in Payloads, v \in 1..MaxVersion :
          /\ entity = [e \in Entities |-> IF e = "e1" THEN d ELSE Null]
          /\ meta = {SyncedMetaRow(BumpedMetaRow(NewMetaRow(1, "e1", "remote"), v, "remote"))}
          /\ queue = {}
          /\ conflicts = {}
          /\ nextId = [meta |-> 2, queue |-> 1, conflicts |-> 1]
          /\ scen = [e \in Entities |-> "void"]
          /\ lastVer = [e \in Entities |-> IF e = "e1" THEN v ELSE 0]
          /\ incs = [e \in Entities |-> IF e = "e1" THEN v ELSE 0]

NextPull ==
  \/ \E p \in SerialProcs, chgs \in PullAnswers :
       count.reqs < MaxRequests /\ PullRecv(p, chgs)
  \/ \E p \in SerialProcs : PullNext(p)
  \/ \E p \in SerialProcs : ApplyFind(p)
  \/ \E p \in SerialProcs : ApplyMeta(p)
  \/ \E p \in SerialProcs : ApplyConflict(p)
  \/ \E p \in SerialProcs : ApplyWrite(p)
  \/ \E p \in SerialProcs : ApplyPurge(p)
  \/ \E p \in SerialProcs : FlagConflictFind(p)
  \/ \E p \in SerialProcs : FlagConflictWrite(p)
  \/ \E p \in SerialProcs : MetaSyncedFind(p)
  \/ \E p \in SerialProcs : MetaSyncedWrite(p)
  \/ \E p \in SerialProcs, a \in Actions, e \in Entities, d \in Payloads :
       MwNext(p, a, e, d)
  \/ \E p \in SerialProcs : MwReplica(p)
  \/ \E p \in SerialProcs : MwReturn(p)
  \/ \E p \in SerialProcs : IncFind(p)
  \/ \E p \in SerialProcs : IncWrite(p)
  \/ \E p \in SerialProcs : EnqueueFind(p)
  \/ \E p \in SerialProcs : EnqueueWrite(p)

SpecPull == InitPull /\ [][NextPull]_vars

\* The master taking pushes from ships.  It holds nothing of the entity, or
\* the entity with the metadata that earlier changes left (a version of
\* 1..MaxVersion, written by one incrementVersion call each).
MasterMetaRow(v) == BumpedMetaRow(NewMetaRow(1, "e1", "master"), v, "master")

InitMaster ==
  /\ mode = "master"
  /\ masterUp = TRUE
  /\ InitProcs
  /\ calc = NoCalc
  /\ InitShips
  /\ InitBoot
  /\ InitMedia
  /\ InitWire
  /\ InitServe
  /\ InitMonitor
  /\ InitRes
  /\ \/ InitDb
     \/ \E d \in Payloads, v \in 1..MaxVersion :
          /\ entity = [e \in Entities |-> IF e = "e1" THEN d ELSE Null]
          /\ meta = {MasterMetaRow(v)}
          /\ queue = {}
          /\ conflicts = {}
          /\ nextId = [meta |-> 2, queue |-> 1, conflicts |-> 1]
          /\ scen = [e \in Entities |-> "void"]
          /\ lastVer = [e \in Entities |-> IF e = "e1" THEN v ELSE 0]
          /\ incs = [e \in Entities |-> IF e = "e1" THEN v ELSE 0]

NextMaster ==
  \/ \E p \in Procs, chgs \in Requests : count.reqs < MaxRequests /\ PushRecv(p, chgs)
  \/ \E p \in Procs : PhNext(p)
  \/ \E p \in Procs : PhFind(p)
  \/ \E p \in Procs : PhMeta(p)
  \/ \E p \in Procs : PhConflict(p)
  \/ \E p \in Procs : PhWrite(p)
  \/ \E p \in Procs : PhApplied(p)
  \/ \E p \in Procs : PhDone(p)
  \/ \E p \in Procs : IncFind(p)
  \/ \E p \in Procs : IncWrite(p)
  \/ \E p \in Procs : FlagConflictFind(p)
  \/ \E p \in Procs : FlagConflictWrite(p)

SpecMaster == InitMaster /\ [][NextMaster]_vars

\* A replica or the master with its bus consumer: users edit through the
\* document service while the consumer applies the messages of the peer.
InitLoop ==
  /\ mode \in {"master", "replica"}
  /\ masterUp = TRUE
  /\ InitProcs
  /\ calc = NoCalc
  /\ InitShips
  /\ InitBoot
  /\ InitMedia
  /\ InitWire
  /\ InitServe
  /\ InitMonitor
  /\ InitRes
  /\ InitDb

NextLoop ==
  \/ \E p \in Procs, a \in Actions, e \in Entities, d \in Payloads : MwNext(p, a, e, d)
  \/ \E p \in Procs : MwReplica(p)
  \/ \E p \in Procs : MwMaster(p)
  \/ \E p \in Procs : MwSend(p)
  \/ \E p \in Procs : MwFail(p)
  \/ \E p \in Procs : MwReturn(p)
  \/ \E p \in Procs : IncFind(p)
  \/ \E p \in Procs : IncWrite(p)
  \/ \E p \in Procs : EnqueueFind(p)
  \/ \E p \in Procs : EnqueueWrite(p)
  \/ \E p \in Procs, msg \in Messages : count.reqs < MaxRequests /\ ConsumeSet(p, msg)
  \/ \E p \in Procs : ConsumeApply(p)
  \/ \E p \in Procs : ConsumeClear(p)
  \/ NetChange

SpecLoop == InitLoop /\ [][NextLoop]_vars

\* The master's ship tracker: ships are seen, time passes, the status of the
\* ships is asked for; one handler at a time.
InitTracker ==
  /\ mode = "master"
  /\ masterUp = TRUE
  /\ InitProcs
  /\ calc = NoCalc
  /\ InitShips
  /\ InitBoot
  /\ InitMedia
  /\ InitWire
  /\ InitServe
  /\ InitMonitor
  /\ InitRes
  /\ InitDb

NextTracker ==
  \/ \E p \in SerialProcs, ship \in Ships : RecordFind(p, ship)
  \/ \E p \in SerialProcs : RecordWrite(p)
  \/ \E p \in SerialProcs, ship \in Ships : IsShipOnline(p, ship)
  \/ \E p \in SerialProcs : IsShipOnlineDone(p)
  \/ \E p \in SerialProcs, ship \in Ships : GetShipStatus(p, ship)
  \/ \E p \in SerialProcs : GetShipStatusDone(p)
  \/ \E p \in SerialProcs : GetAllShipsStatus(p)
  \/ \E p \in SerialProcs : GetAllNext(p)
  \/ \E p \in SerialProcs : GetAllPush(p)
  \/ \E p \in SerialProcs : ShipOnlineFind(p)
  \/ \E p \in SerialProcs : ShipOnlineWrite(p)
  \/ \E p \in SerialProcs : MarkOfflineShips(p)
  \/ \E p \in SerialProcs : MarkOfflineNext(p)
  \/ Tick

SpecTracker == InitTracker /\ [][NextTracker]_vars

\* Bootstrap of a replica: the producer's retry chain starts, the bus comes
\* and goes, the process may be shut down.
InitRetry ==
  /\ mode = "replica"
  /\ masterUp = TRUE
  /\ InitProcs
  /\ calc = NoCalc
  /\ InitShips
  /\ InitDb
  /\ conn = FirstChain
  /\ shut = [flag |-> FALSE, cleaned |-> FALSE]
  /\ \E r \in BOOLEAN :
       net = [reachable |-> r, producer |-> FALSE, online |-> FALSE, flaps |-> 0]
  /\ timers = NoTimers
  /\ push = IdlePush
  /\ started = [kind |-> "none", tick |-> FALSE]
  /\ InitMedia
  /\ InitWire
  /\ InitServe
  /\ InitMonitor
  /\ InitRes

NextRetry ==
  \/ RetryEnter
  \/ RetryAttempt
  \/ RetryResult
  \/ RetryWake
  \/ StalePollFire
  \/ BgRetryFire
  \/ BusChange
  \/ ShutdownBegin
  \/ ShutdownCleanup

SpecRetry == InitRetry /\ [][NextRetry]_vars

\* A replica after its bootstrap: the timers are set, edits are queued, the
\* bus comes and goes, time passes, the process may be shut down.
InitSched ==
  /\ mode = "replica"
  /\ masterUp = TRUE
  /\ InitProcs
  /\ calc = NoCalc
  /\ InitShips
  /\ InitDb
  /\ conn = [FirstChain EXCEPT !.st = "connected"]
  /\ shut = [flag |-> FALSE, cleaned |-> FALSE]
  /\ \E r \in BOOLEAN :
       net = [reachable |-> r, producer |-> r, online |-> r, flaps |-> 0]
  /\ timers = [NoTimers EXCEPT !.monitor = TRUE, !.heartbeat = TRUE, !.autoPush = TRUE]
  /\ push = IdlePush
  /\ started = [kind |-> "none", tick |-> FALSE]
  /\ InitMedia
  /\ InitWire
  /\ InitServe
  /\ InitMonitor
  /\ InitRes

NextSched ==
  \/ QueueEdit
  \/ DebounceFire
  \/ ImmediateFire
  \/ ExecPending
  \/ ExecCheck
  \/ ExecDone
  \/ MonitorProbe
  \/ ReconFire
  \/ ReconPending
  \/ ReconDone
  \/ AutoPushFire
  \/ AutoPending
  \/ AutoCheck
  \/ AutoStable
  \/ HeartbeatFire
  \/ ProducerReconnect
  \/ BusChange
  \/ ShutdownBegin
  \/ ShutdownCleanup
  \/ Elapse

SpecSched == InitSched /\ [][NextSched]_vars

\* The JSON values of nesting depth at most depth, with the keys JsonKeys,
\* the strings JsonStrings and arrays of at most MaxItems items.
JsonKeys == {"title", "password"}
JsonStrings == {"s"}

RECURSIVE JsonValues(_)
JsonValues(depth) ==
  LET scalars == {JNull} \cup {JStr(t) : t \in JsonStrings} IN
  IF depth = 0 THEN scalars
  ELSE LET inner == JsonValues(depth - 1) IN
       scalars
       \cup {JObj({<<k, f[k]>> : k \in DOMAIN f}) :
               f \in UNION {[K -> inner] : K \in SUBSET JsonKeys}}
       \cup {JArr(a) : a \in UNION {[1..n -> inner] : n \in 0..MaxItems}}

\* The middleware stripping a document before it enqueues or publishes it.
InitStrip ==
  /\ mode \in {"master", "replica"}
  /\ masterUp = TRUE
  /\ InitProcs
  /\ InitDb
  /\ InitShips
  /\ InitBoot
  /\ InitMedia
  /\ InitWire
  /\ InitServe
  /\ InitMonitor
  /\ InitRes
  /\ \E x \in JsonValues(MaxDepth) :
       calc = [fn |-> "strip", arg |-> x, res |-> JNull, done |-> FALSE]

NextStrip == StripCall

SpecStrip == InitStrip /\ [][NextStrip]_vars

UrlTokens == {MediaConfig.oss, MediaConfig.minio, "f"}
UrlKeys == {"url", "title"}

\* The strings of at most MaxTokens tokens.
UrlStrings == UNION {[1..n -> UrlTokens] : n \in 0..MaxTokens}

\* The payloads of nesting depth at most depth: null, strings, objects with
\* the keys UrlKeys, arrays of at most MaxItems items.
RECURSIVE UrlValues(_)
UrlValues(depth) ==
  LET scalars == {JNull} \cup {JStr(t) : t \in UrlStrings} IN
  IF depth = 0 THEN scalars
  ELSE LET inner == UrlValues(depth - 1) IN
       scalars
       \cup {JObj({<<k, f[k]>> : k \in DOMAIN f}) :
               f \in UNION {[K -> inner] : K \in SUBSET UrlKeys}}
       \cup {JArr(a) : a \in UNION {[1..n -> inner] : n \in 0..MaxItems}}

\* A payload of the master rewritten for the replica and back.
InitUrls ==
  /\ mode = "replica"
  /\ masterUp = TRUE
  /\ InitProcs
  /\ InitDb
  /\ InitShips
  /\ InitBoot
  /\ InitMedia
  /\ InitWire
  /\ InitServe
  /\ InitMonitor
  /\ InitRes
  /\ \E x \in UrlValues(MaxUrlDepth) :
       calc = [fn |-> "transformToReplica", arg |-> x, res |-> JNull, done |-> FALSE]

NextUrls == ToReplicaCall \/ ToMasterCall

SpecUrls == InitUrls /\ [][NextUrls]_vars

BaseChars == {"h", "m"}
PathChars == {"f", "/"}

\* The base URLs: the non-empty strings of at most MaxBase characters.
BaseUrls == UNION {[1..n -> BaseChars] : n \in 1..MaxBase}

\* The object paths: the strings of at most MaxPath characters.
ObjectPaths == UNION {[1..n -> PathChars] : n \in 0..MaxPath}

\* The media configurations: two different base URLs.
MediaConfigs == {c \in [oss : BaseUrls, minio : BaseUrls] : c.oss # c.minio}

\* The URL of an object path and back.
InitPaths ==
  /\ mode = "replica"
  /\ masterUp = TRUE
  /\ InitProcs
  /\ InitDb
  /\ InitShips
  /\ InitBoot
  /\ InitMedia
  /\ InitWire
  /\ InitServe
  /\ InitMonitor
  /\ InitRes
  /\ \E c \in MediaConfigs, p \in ObjectPaths, fn \in {"getMinioUrl", "getOssUrl"} :
       calc = [fn |-> fn, arg |-> [config |-> c, path |-> p], res |-> JNull,
               done |-> FALSE]

NextPaths == GetMinioUrlCall \/ GetOssUrlCall \/ UrlToObjectPathCall

SpecPaths == InitPaths /\ [][NextPaths]_vars

UploadPaths == {<<>>, <<"u">>, <<"u", "/">>}
FileChars == {"f", "u", "/"}

\* The names of objects: the non-empty strings of at most MaxName characters
\* that neither start nor end with a slash.
ObjectNames ==
  {n \in UNION {[1..k -> FileChars] : k \in 1..MaxName} : n[1] # "/" /\ n[Len(n)] # "/"}

\* A replica with media sync: the master's storage has objects under the
\* upload path, the local one has objects of its own; payloads with a URL of
\* the master are received, payloads with a local object are pushed.
InitStore ==
  /\ mode = "replica"
  /\ masterUp = TRUE
  /\ InitProcs
  /\ calc = NoCalc
  /\ InitShips
  /\ InitBoot
  /\ InitDb
  /\ InitWire
  /\ InitServe
  /\ InitMonitor
  /\ InitRes
  /\ \E up \in UploadPaths, f \in ObjectNames, g \in ObjectNames :
       media = [config |-> [BaseConfig EXCEPT !.uploadPath = up],
                oss |-> {OssObjectName([BaseConfig EXCEPT !.uploadPath = up], f)},
                minio |-> {g}, files |-> {}, last |-> NoMediaCall,
                calls |-> 0, mapped |-> {}]

NextStore ==
  \/ \E p \in SerialProcs, o \in media.oss :
       SyncContentMedia(p, GetOssUrl(media.config, o))
  \/ \E p \in SerialProcs : ScmExists(p)
  \/ \E p \in SerialProcs : SyncFileGet(p)
  \/ \E p \in SerialProcs : SyncFilePut(p)
  \/ \E p \in SerialProcs, g \in ObjectNames : SyncContentMediaToOss(p, g)
  \/ \E p \in SerialProcs : SmoExists(p)
  \/ \E p \in SerialProcs : UploadGet(p)
  \/ \E p \in SerialProcs : UploadPut(p)

SpecStore == InitStore /\ [][NextStore]_vars

\* A master or a replica in the bus generation: the admin edits documents in
\* their locales while the producer comes and goes.
InitWireSpec ==
  /\ mode \in {"master", "replica"}
  /\ masterUp = TRUE
  /\ InitProcs
  /\ calc = NoCalc
  /\ InitShips
  /\ InitBoot
  /\ InitDb
  /\ InitMedia
  /\ InitWire
  /\ InitServe
  /\ InitMonitor
  /\ InitRes

NextWire ==
  \/ \E d \in Docs, l \in Locales, op \in WireOps : MwMasterBus(d, l, op)
  \/ \E d \in Docs, l \in Locales, op \in WireOps : MwReplicaBus(d, l, op)
  \/ \E k \in DrainPasses : MasterAutoPushCheck(k)
  \/ \E k \in DrainPasses : DrainItem(k)
  \/ ProducerChange
  \/ Millisecond

SpecWire == InitWireSpec /\ [][NextWire]_vars

\* A master at millisecond 1: without entities, or with e1 created by the
\* admin at that time (its row was never synced), or with e1 applied from a
\* ship's push at that time (its row is marked synced).
InitServeSpec ==
  /\ mode = "master"
  /\ masterUp = TRUE
  /\ InitProcs
  /\ calc = NoCalc
  /\ sessions = {}
  /\ clock = 1
  /\ report = NoReport
  /\ InitBoot
  /\ InitMedia
  /\ InitWire
  /\ InitMonitor
  /\ InitRes
  /\ queue = {}
  /\ conflicts = {}
  /\ scen = [e \in Entities |-> "none"]
  /\ incs = [e \in Entities |-> 0]
  /\ \/ /\ entity = [e \in Entities |-> Null]
        /\ meta = {}
        /\ nextId = [meta |-> 1, queue |-> 1, conflicts |-> 1]
        /\ lastVer = [e \in Entities |-> 0]
        /\ InitServe
     \/ \E d \in Payloads, at \in {"null", StampOf(1)} :
          /\ entity = [e \in Entities |-> IF e = "e1" THEN d ELSE Null]
          /\ meta = {[NewMetaRow(1, "e1", "master") EXCEPT
                        !.lastSyncedAt = at,
                        !.syncStatus = IF at = "null" THEN "pending" ELSE "synced"]}
          /\ nextId = [meta |-> 2, queue |-> 1, conflicts |-> 1]
          /\ lastVer = [e \in Entities |-> IF e = "e1" THEN 1 ELSE 0]
          /\ serve = [modAt |-> [e \in Entities |-> IF e = "e1" THEN 1 ELSE 0],
                      asked |-> FALSE, since |-> 0, changes |-> {},
                      seen |-> [e \in Entities |-> 0]]

NextServe ==
  \/ \E p \in SerialProcs, a \in Actions, e \in Entities, d \in Payloads :
       MasterHook(p, a, e, d)
  \/ \E p \in SerialProcs : HookDelete(p)
  \/ \E p \in SerialProcs : HookReturn(p)
  \/ \E p \in SerialProcs : IncFind(p)
  \/ \E p \in SerialProcs : IncWrite(p)
  \/ \E p \in SerialProcs, ship \in Ships, since \in 0..(MaxStamp - 1) :
       PullServe(p, ship, since)
  \/ \E p \in SerialProcs : ServeRecord(p)
  \/ \E p \in SerialProcs : ServeQuery(p)
  \/ \E p \in SerialProcs : ServeItem(p)
  \/ ServeTick

SpecServe == InitServeSpec /\ [][NextServe]_vars

\* A replica whose connectivity tracker checks the master, which comes and
\* goes; masterUrl is configured or not.
InitConn ==
  /\ mode = "replica"
  /\ masterUp \in BOOLEAN
  /\ InitProcs
  /\ calc = NoCalc
  /\ InitShips
  /\ InitBoot
  /\ InitMedia
  /\ InitWire
  /\ InitServe
  /\ InitDb
  /\ InitRes
  /\ \E url \in BOOLEAN :
       monitor = [masterUrl |-> url, state |-> InitialConnectivity, last |-> NoCheck,
                  checks |-> 0]

NextConn ==
  \/ \E p \in Procs : CheckConnectivity(p)
  \/ \E p \in Procs : CheckProbe(p)
  \/ NetChange

SpecConn == InitConn /\ [][NextConn]_vars

DetectFields == {"title", "body", "id"}
DetectValues == {"A", "B"}

\* The entities handed to detectConflict: null, or some of the fields with
\* a value each.
DetectEntities ==
  {Null} \cup UNION {{{<<k, f[k]>> : k \in K} : f \in [K -> DetectValues]} :
                       K \in SUBSET DetectFields}

InitDetect ==
  /\ mode = "replica"
  /\ masterUp = TRUE
  /\ InitProcs
  /\ InitDb
  /\ InitShips
  /\ InitBoot
  /\ InitMedia
  /\ InitWire
  /\ InitServe
  /\ InitMonitor
  /\ InitRes
  /\ \E l \in DetectEntities, r \in DetectEntities,
        lv \in 1..MaxDetectVersion, rv \in 1..MaxDetectVersion :
       calc = [fn |-> "detectConflict",
               arg |-> [local |-> l, localVersion |-> lv, remote |-> r,
                        remoteVersion |-> rv],
               res |-> JNull, done |-> FALSE]

NextDetect == DetectConflictCall

SpecDetect == InitDetect /\ [][NextDetect]_vars

FileHashes == {"x", "y"}

\* The file records of a replica: its id of the file, the hash, the local URL.
FileRecords ==
  {[id |-> i, hash |-> h, url |-> GetMinioUrl(BaseConfig, <<"f">>)] :
     i \in 1..MaxFileBatch, h \in FileHashes}

FileBatches == UNION {[1..n -> FileRecords] : n \in 1..MaxFileBatch}

\* A master that receives the file records of replicas; two batches can be
\* under way at a time.
InitFiles ==
  /\ mode = "master"
  /\ masterUp = TRUE
  /\ InitProcs
  /\ calc = NoCalc
  /\ InitShips
  /\ InitBoot
  /\ InitDb
  /\ InitMedia
  /\ InitWire
  /\ InitServe
  /\ InitMonitor
  /\ InitRes

NextFiles ==
  \/ \E p \in Procs, b \in FileBatches : ProcessReplicaFileRecords(p, b)
  \/ \E p \in Procs : PrfFind(p)
  \/ \E p \in Procs : PrfCreate(p)

SpecFiles == InitFiles /\ [][NextFiles]_vars

\* ----------------------------------------------------- resolving a conflict
Resolutions == {"keep_local", "keep_remote", "merge"}

\* The merged data a request may carry (Null: none).
MergedInputs == {Null, {<<"title", "M">>}}

\* The conflict flagged for e1: the two sides differ in title, the remote
\* side has a field the local side lacks.
FlaggedConflict ==
  [id |-> 1, entityId |-> "e1", localData |-> {<<"title", "A">>},
   remoteData |-> {<<"title", "B">>, <<"note", "X">>},
   conflictingFields |-> {"title"}, conflictType |-> "direct", status |-> "pending"]

\* One pending conflict of e1; e1 is there with its metadata in conflict, or
\* was deleted since (its metadata went with it).
InitResolve ==
  /\ mode \in {"master", "replica"}
  /\ masterUp = TRUE
  /\ InitProcs
  /\ \E there \in BOOLEAN :
       /\ entity = [e \in Entities |-> IF there THEN FlaggedConflict.localData ELSE Null]
       /\ meta = IF there
                 THEN {ConflictMetaRow(NewMetaRow(1, "e1", "local"))}
                 ELSE {}
       /\ nextId = [meta |-> IF there THEN 2 ELSE 1, queue |-> 1, conflicts |-> 2]
  /\ queue = {}
  /\ conflicts = {FlaggedConflict}
  /\ scen = [e \in Entities |-> "none"]
  /\ lastVer = [e \in Entities |-> 0]
  /\ incs = [e \in Entities |-> 0]
  /\ calc = NoCalc
  /\ InitShips
  /\ InitBoot
  /\ InitMedia
  /\ InitWire
  /\ InitServe
  /\ InitMonitor
  /\ InitRes

NextResolve ==
  \/ \E p \in Procs, id \in 1..2, r \in Resolutions, d \in MergedInputs :
       ResolveConflict(p, id, r, d)
  \/ \E p \in Procs : RcEntity(p)
  \/ \E p \in Procs, sameId \in BOOLEAN : RcWrite(p, sameId)
  \/ \E p \in Procs : RcFresh(p)
  \/ \E p \in Procs : RcHook(p)
  \/ \E p \in Procs : RcMark(p)
  \/ \E p \in Procs : RcDone(p)
  \/ \E p \in Procs : IncFind(p)
  \/ \E p \in Procs : IncWrite(p)
  \/ \E p \in Procs : EnqueueFind(p)
  \/ \E p \in Procs : EnqueueWrite(p)
  \/ \E p \in Procs : MetaSyncedFind(p)
  \/ \E p \in Procs : MetaSyncedWrite(p)

SpecResolve == InitResolve /\ [][NextResolve]_vars

\* ---------------------------------------------------------------- claims
\* C1: in every reachable state of the replica's outbound queue, whatever the
\* interleaving of enqueue, markSynced, markFailed, retryFailed and
\* clearSynced, each entity has at most one queue row with status pending.
OnePendingPerKey == \A e \in Entities : Cardinality(PendingRows(e)) <= 1

\* The step of process p that completes an enqueue.
EnqueueDone(p) == pc[p] = "enq_write" /\ pc'[p] # "enq_write"

\* What an enqueue that found the pending row loc.x, or none, does to the queue.
EnqueueEffect(p) ==
  LET l == loc[p] IN
  IF l.x # 0
  THEN /\ Cardinality(queue') = Cardinality(queue)
       /\ \A r \in queue' : r.id = l.x =>
            r.operation = l.op /\ r.data = l.d /\ r.version = l.v /\ r.retryCount = 0
  ELSE \E r \in queue' :
         /\ r \notin queue
         /\ queue' = queue \cup {r}
         /\ r.entityId = l.e /\ r.status = "pending" /\ r.operation = l.op
         /\ r.data = l.d /\ r.version = l.v /\ r.retryCount = 0

\* The step that completes the update of the scenario create-then-update.
ScenarioDone(e) == scen[e] = "updating" /\ scen'[e] = "updated"

ScenarioEffect(e) ==
  LET rows == {r \in queue' : r.entityId = e /\ r.status = "pending"} IN
  /\ Cardinality(rows) = 1
  /\ \A r \in rows : r.operation = "update" /\ r.version = 2 /\ r.retryCount = 0

\* C3: an enqueue that found a pending row of its key leaves the number of
\* rows unchanged and overwrites that row's operation, data and version and
\* sets its retryCount to 0, and otherwise inserts exactly one new pending
\* row; and when an update of an entity follows its create while the master
\* is unreachable, the update leaves exactly one pending row of the entity,
\* with operation update, version 2 and retryCount 0.
EnqueueCollapses ==
  [][/\ \A p \in Procs : EnqueueDone(p) => EnqueueEffect(p)
     /\ \A e \in Entities : ScenarioDone(e) => ScenarioEffect(e)]_vars

\* The changes waiting in the queue that no POST delivered yet.
Unsent == {r \in queue : r.status # "synced" /\ Batch({r}) \cap sent = {}}

\* C2: an edit enqueued while the master is unreachable is sent in the end:
\* if from some time on the master stays reachable, then from some time on
\* no queued change is left undelivered, however long the master was
\* unreachable and however many pushes failed.
OfflineEditsSent == (<>[]masterUp) => <>[](Unsent = {})

\* The step with which process p has dealt with a conflict it detected: push
\* goes on after flagConflict, applyChange returns after its metadata update.
ConflictDealtWith(p) ==
  \/ pc[p] # "ph_conflict" /\ pc'[p] = "ph_conflict"
  \/ pc[p] = "ac_conflict" /\ pc'[p] # "ac_conflict"

\* After it: the entity is as the handler read it, a pending ConflictLog row
\* of the entity exists, and its metadata says conflict.
ConflictRecorded(p) ==
  LET l == loc[p] IN
  /\ entity'[l.e] = l.le
  /\ \E c \in conflicts' : c.entityId = l.e /\ c.status = "pending"
  /\ \E m \in meta' : m.entityId = l.e
  /\ \A m \in meta' : m.entityId = l.e => m.syncStatus = "conflict" /\ m.conflictFlag

\* C4: whenever applyChange or the POST /sync/push handler finds an incoming
\* change to conflict with a local entity that has metadata, the change is
\* not applied, a pending ConflictLog row of the entity exists afterwards and
\* the entity's metadata has syncStatus conflict and conflictFlag true.
ConflictStopsApply ==
  [][\A p \in Procs : ConflictDealtWith(p) => ConflictRecorded(p)]_vars

\* C5: when the master holds an entity at version 3 with title B and a ship
\* pushes an update of it with version 3 and title A, then once the master
\* has handled the change a pending ConflictLog row with conflictingFields
\* {title} and type direct exists and the master's entity is not overwritten.
SameVersionConflict ==
  \A p \in Procs :
    LET l == loc[p] IN
    (/\ pc[p] = "ph_done" /\ l.h = "push_in" /\ l.op = "update"
     /\ l.cv = 3 /\ l.lv = 3
     /\ l.le = {<<"title", "B">>} /\ l.d = {<<"title", "A">>})
    => /\ \E c \in PendingConflicts(l.e) :
            c.conflictingFields = {"title"} /\ c.conflictType = "direct"
       /\ entity[l.e] = l.le

\* C6: in every reachable state each entity has at most one ConflictLog row
\* with status pending, also when two conflicting changes of the entity are
\* handled concurrently.
OnePendingConflictPerEntity == \A e \in Entities : Cardinality(PendingConflicts(e)) <= 1

\* C7: the syncVersion written for an entity is never below the one written
\* for it before, over local edits, remote applies, deletions and
\* re-creations of the entity.
VersionNeverDecreases == [][\A e \in Entities : lastVer'[e] >= lastVer[e]]_vars

\* Processes p and q both hold the result of an incrementVersion call for
\* the same entity (an edit that goes on to enqueue it).
BothIncremented(p, q) ==
  /\ p # q
  /\ pc[p] \in {"enq_find", "enq_write"} /\ pc[q] \in {"enq_find", "enq_write"}
  /\ loc[p].op # "delete" /\ loc[q].op # "delete"
  /\ loc[p].e = loc[q].e

\* C8: incrementVersion is atomic: the calls completed for an entity raised
\* its syncVersion by one each, their results differ pairwise, and the
\* entity has at most one metadata row.
IncrementAtomic ==
  /\ \A e \in Entities :
       /\ Cardinality(MetaRows(e)) <= 1
       /\ \A m \in MetaRows(e) : m.syncVersion = incs[e]
  /\ \A p, q \in Procs : BothIncremented(p, q) => loc[p].v # loc[q].v

\* C9: when a request has been delivered and handled, and then the same
\* request is delivered and handled once more, the entities, the metadata,
\* the ConflictLog and the queue are as they were after the first delivery.
RedeliveryChangesNothing ==
  dlv.st = "twice" => <<entity, meta, conflicts, queue>> = dlv.after

\* A step of the handler p that applies a message of the peer.
ApplyStep(p) == loc[p].h = "consume" /\ pc'[p] # pc[p]

EditDecided(p) == loc[p].h = "edit" /\ pc[p] = "mw_check" /\ pc'[p] # "mw_check"

Propagating == {"inc_find", "enq_find", "mw_send"}

\* C11: a user's edit is propagated also when it runs while the consumer is
\* applying a message of the peer: the middleware of every user edit goes on
\* to the version bump and the enqueue (replica) or to the publish (master).
UserEditPropagated ==
  [][\A p \in Procs : EditDecided(p) => pc'[p] \in Propagating]_vars

\* C12: every document call comes back to its caller with the value the CMS
\* operation produced: it never throws because of the sync logic and never
\* returns another value, also when the version bump, the enqueue, the
\* edit log, the publish or the master's enqueue failed.
ReturnsCmsResult == outcome.st # "none" => outcome.st = "returned" /\ outcome.same

\* A document call has come back after a call of its sync logic had failed.
ReturnedAfterFailure == outcome.st = "returned" /\ outcome.fail

\* Whether a key of the sensitive set occurs in x, at any depth inside
\* objects and arrays.
RECURSIVE HasSensitiveKey(_)
HasSensitiveKey(x) ==
  IF IsArr(x) THEN \E i \in DOMAIN x.arr : HasSensitiveKey(x.arr[i])
  ELSE IF IsObj(x)
       THEN \E kv \in x.obj : kv[1] \in SENSITIVE_FIELDS \/ HasSensitiveKey(kv[2])
       ELSE FALSE

\* C13: the payload the middleware enqueues or publishes, the result of
\* stripSensitiveData, contains no key of the sensitive set at any nesting
\* depth inside objects or arrays.
SensitiveKeysOmitted ==
  (calc.fn = "strip" /\ calc.done) => ~HasSensitiveKey(calc.res)

\* The step with which the middleware of a user's edit on the master, which
\* the flag did not suppress and which is logged, leaves its master branch.
MasterEditHandled(p) ==
  /\ mode = "master" /\ loc[p].h = "edit"
  /\ pc[p] = "mw_send" /\ pc'[p] = "mw_ret"

\* C14: every tracked edit of the master that loop prevention does not
\* suppress is, when its middleware is done, among the messages published
\* to the ships or in the master broadcast queue, also when the producer
\* is connected and the publish call fails.
MasterEditDelivered ==
  [][\A p \in Procs : MasterEditHandled(p) =>
       \/ \E m \in bus'.published : m.e = loc[p].e /\ m.op = loc[p].op
       \/ \E q \in bus'.queued : q.e = loc[p].e /\ q.op = loc[p].op]_vars

\* C15: the online status reported by isShipOnline, getShipStatus and
\* getAllShipsStatus is true iff the ship has a session and the time since
\* its lastSeenAt, when the status is computed, is below the threshold
\* (300 s); a ship without a session is not reported online.
OnlineIffSeenRecently ==
  report.fn # "none" => (report.on <=> (report.had /\ report.age < DefaultThreshold))

\* A status was reported for a ship last seen exactly the threshold ago.
ReportedAtThreshold ==
  report.fn # "none" /\ report.had /\ report.age = DefaultThreshold

\* C16: in every reachable state a sync-metadata row whose syncStatus is
\* synced has a lastSyncedAt that is not null.
SyncedHasSyncTime ==
  \A m \in meta : m.syncStatus = "synced" => m.lastSyncedAt # "null"

\* markSynced has marked a row: the installation starts without synced rows.
RowMarkedSynced == \E m \in meta : m.syncStatus = "synced"

ChainEnded == conn.st \in {"connected", "skipped", "aborted", "exhausted"}

\* C17: a retry chain started at bootstrap ends only through a successful
\* connection or through shutdown.
RetryEndsConnectedOrShutdown == ChainEnded => (conn.st = "connected" \/ shut.flag)

\* A push about to start in a call that was made before the cleanup ran.
PushInFlight == (push.exec = "check" /\ ~push.late) \/ push.rpush = "pending"

\* C18: once graceful shutdown has set the flag and run the cleanup
\* functions, no connection attempt, push, heartbeat or auto-push check
\* starts, but for the push of a call already in flight.
NothingStartsAfterShutdown ==
  [][(shut.cleaned /\ started' # started) => (started'.kind = "push" /\ PushInFlight)]_vars

PushStarts == started' # started /\ started'.kind = "push"

\* C19: a push starts no sooner than 3 s after the replica's connectivity
\* went from offline to online, and then only with a connected producer.
PushStartsStable ==
  [][PushStarts =>
       \A t \in push'.reconAt : clock - t >= STABILIZATION_DELAY_MS /\ net.producer]_vars

RoundTripDone == calc.fn = "transformToMaster" /\ calc.done

\* The payload has an occurrence of the base URL.
RECURSIVE HasBase(_, _)
HasBase(x, base) ==
  IF IsStr(x) THEN Includes(x.str, base)
  ELSE IF IsArr(x) THEN \E i \in DOMAIN x.arr : HasBase(x.arr[i], base)
  ELSE IF IsObj(x) THEN \E kv \in x.obj : HasBase(kv[2], base)
  ELSE FALSE

\* C20 as stated: for every payload x whose URLs are all prefixed by the
\* master's or by the replica's base URL,
\* transformToMaster(transformToReplica(x)) = x.
UrlRoundTrip == RoundTripDone => calc.res = calc.arg

\* C20 amended: for every payload x whose URLs are all prefixed by the
\* master's base URL (no occurrence of the replica's),
\* transformToMaster(transformToReplica(x)) = x.
UrlRoundTripFromMaster ==
  (RoundTripDone /\ ~HasBase(calc.arg, MediaConfig.minio)) => calc.res = calc.arg

\* A payload with a URL of the master nested in it went both ways.
MasterUrlRoundTripped ==
  /\ RoundTripDone
  /\ ~IsStr(calc.arg)
  /\ HasBase(calc.arg, MediaConfig.oss)
  /\ ~HasBase(calc.arg, MediaConfig.minio)

\* C21: for every object path p and every configured pair of base URLs,
\* urlToObjectPath(getMinioUrl(p)) = p and urlToObjectPath(getOssUrl(p)) = p.
ObjectPathRoundTrip ==
  (calc.fn = "urlToObjectPath" /\ calc.done) => calc.res = calc.arg.path

\* The object path that a URL of the given base names.
PathOf(url, base) == TrimLead(SubSeq(url, Len(TrimSlash(base)) + 1, Len(url)))

\* C22: after syncContentMedia on a replica for a payload with a URL of the
\* master, the local URL the payload is rewritten to (ossUrlToMinioUrl)
\* names an object of the local bucket.
RewrittenUrlNamesStoredObject ==
  (media.last.fn = "syncContentMedia" /\ media.last.ok) =>
    PathOf(OssUrlToMinioUrl(media.config, media.last.url), media.config.minio)
      \in media.minio

\* C23: after the upload of a local object p, the master URL that
\* minioUrlToOssUrl produces for p names the object that uploadFileToOss
\* wrote and fileExistsInOss looks for, whether or not p starts with the
\* upload path.
MasterUrlNamesUploadedObject ==
  (media.last.fn = "syncContentMediaToOss" /\ media.last.ok) =>
    /\ OssObjectName(media.config, media.last.path) \in media.oss
    /\ PathOf(MinioUrlToOssUrl(media.config, media.last.url), media.config.oss)
         = OssObjectName(media.config, media.last.path)

\* C24: any two messages the master published, direct broadcasts and
\* drained queue items alike, carry different messageIds.
DistinctMessageIds ==
  \A i, j \in DOMAIN wire.out :
    i # j => wire.out[i].messageId # wire.out[j].messageId

\* C25: every message and every queue entry of a delete has data = null and
\* version = 0: the replica's queue entries, the master's direct messages,
\* the master's queue entries and the messages drained from them.
DeleteCarriesNullAndZero ==
  /\ \A i \in DOMAIN wire.out :
       wire.out[i].operation = "delete" =>
         wire.out[i].data = JNull /\ wire.out[i].version = 0
  /\ \A i \in DOMAIN wire.rq :
       wire.rq[i].operation = "delete" =>
         wire.rq[i].data = JNull /\ wire.rq[i].version = 0
  /\ \A i \in DOMAIN wire.mq :
       wire.mq[i].operation = "delete" =>
         wire.mq[i].data = JNull /\ wire.mq[i].version = 0

\* C26: a pull with the timestamp T answers with a change for every entity
\* the master created, updated or deleted after T, and with no change for an
\* entity not modified since T.
PullReturnsModifiedSince ==
  (serve.asked /\ serve.since # 0) =>
    \A e \in Entities :
      (serve.seen[e] > serve.since) <=> (\E c \in serve.changes : c.e = e)

\* C27: after a checkConnectivity that probed the master, the isOnline of
\* the tracker and the isOnline returned are true iff the probe succeeded;
\* after a probe that failed or timed out lastFailure is recorded,
\* consecutiveFailures is one more and consecutiveSuccesses is 0.
OnlineIffProbeSucceeded ==
  (monitor.last.done /\ monitor.last.probed) =>
    /\ monitor.last.isOnline = monitor.last.reached
    /\ monitor.last.after.isOnline = monitor.last.reached
    /\ ~monitor.last.reached =>
         /\ monitor.last.after.lastFailure = monitor.last.after.lastChecked
         /\ monitor.last.after.consecutiveFailures
              = monitor.last.before.consecutiveFailures + 1
         /\ monitor.last.after.consecutiveSuccesses = 0

\* C28: detectConflict of two entities reports no conflict when the
\* versions are equal; otherwise conflictingFields is the set of
\* non-reserved fields whose values differ, hasConflict is true iff that set
\* is non-empty and the kind is then direct, and fields of one side only
\* give the kind structural.
ConflictKindFollowsDiff ==
  (calc.fn = "detectConflict" /\ calc.done
   /\ calc.arg.local # Null /\ calc.arg.remote # Null) =>
    LET a == calc.arg
        localKeys == Keys(a.local) \ ReservedFields
        remoteKeys == Keys(a.remote) \ ReservedFields
        differing == {k \in localKeys \cap remoteKeys : Val(a.local, k) # Val(a.remote, k)}
        oneSided == (localKeys \ remoteKeys) \cup (remoteKeys \ localKeys)
    IN IF a.localVersion = a.remoteVersion
       THEN ~calc.res.hasConflict
       ELSE /\ differing # {} =>
                 /\ calc.res.hasConflict
                 /\ differing \subseteq calc.res.conflictingFields
            /\ (differing # {} /\ oneSided = {}) =>
                 /\ calc.res.conflictingFields = differing
                 /\ calc.res.conflictType = "direct"
            /\ (differing = {} /\ oneSided = {}) => ~calc.res.hasConflict
            /\ oneSided # {} => calc.res.conflictType = "structural"

\* C29: at most one file row exists per hash that processReplicaFileRecords
\* handled, and every mapping returned sends a record's id to the id of a
\* row holding the record's hash.
OneFileRowPerHash ==
  /\ \A r1, r2 \in media.files : r1.hash = r2.hash => r1 = r2
  /\ \A u \in media.mapped : \E r \in media.files : r.id = u.to /\ r.hash = u.hash

\* C30: markFailed raises the retryCount of the row by exactly 1 and sets
\* its status to failed iff the new retryCount has reached maxRetries, else
\* to pending.
MarkFailedCountsOnce ==
  [][\A p \in Procs :
       (pc[p] = "mf_write" /\ pc'[p] # "mf_write") =>
         \A r \in queue :
           r.id = loc[p].x =>
             \E w \in queue' :
               /\ w.id = r.id
               /\ w.retryCount = r.retryCount + 1
               /\ w.status = IF w.retryCount >= MaxRetries THEN "failed" ELSE "pending"]_vars

\* C30: in every state a pending row has retryCount < maxRetries and a
\* failed row has retryCount >= maxRetries.
StatusFollowsRetryCount ==
  \A r \in queue :
    /\ r.status = "pending" => r.retryCount < MaxRetries
    /\ r.status = "failed" => r.retryCount >= MaxRetries

\* C31: every update of retryFailed returns to pending, with the
\* errorMessage cleared, a row that is failed with retryCount below the
\* cap, and changes no other row.
RetryFailedMovesRetryable ==
  [][\A p \in Procs :
       (pc[p] = "rf_write" /\ <<pc[p], loc[p]>> # <<pc'[p], loc'[p]>>) =>
         LET id == CHOOSE i \in loc[p].snap : \A j \in loc[p].snap : i <= j IN
         \A r \in queue :
           \E w \in queue' :
             /\ w.id = r.id
             /\ IF r.id = id
                THEN \/ w = r
                     \/ /\ r \in RetryableRows
                        /\ w = [r EXCEPT !.status = "pending", !.errorMessage = "null"]
                ELSE w = r]_vars

\* retryFailed found a failed row below the cap and is about to return it
\* to pending.
RetryFailedFoundRow ==
  \E p \in Procs : pc[p] = "rf_write" /\ \E r \in RetryableRows : r.id \in loc[p].snap

\* The payload of the entity with this id: an entity the CMS had, or one that
\* resolveConflict created under a new id.
HeldData(id) ==
  IF id \in Entities THEN entity[id]
  ELSE IF \E c \in res.created : c.id = id
       THEN (CHOOSE c \in res.created : c.id = id).d
       ELSE Null

\* C32: when the one resolveConflict(c, choice) called on a pending conflict
\* has succeeded, the conflict row is resolved with that resolution, and the
\* entity that holds the chosen payload holds exactly it and has a
\* SyncMetadata row that is synced with the conflict flag off.
ResolvedEntitySynced ==
  (res.calls = 1 /\ res.last.ok) =>
    /\ \E c \in conflicts :
         c.id = res.last.id /\ c.status = "resolved" /\ c.resolution = res.last.resolution
    /\ res.last.holder # "none" =>
         /\ HeldData(res.last.holder) = res.last.final
         /\ \E m \in MetaRows(res.last.holder) :
              m.syncStatus = "synced" /\ ~m.conflictFlag

\* The one call succeeded and a CMS entity holds its payload.
ResolvedOnce == res.calls = 1 /\ res.last.ok /\ res.last.holder # "none"

\* C33: a resolveConflict call that raises the error changes no table and no
\* entity, and no conflict has its payload written to the CMS by more than
\* one resolveConflict call.
ResolvedAtMostOnce ==
  [][/\ res'.errors # res.errors => UNCHANGED <<dbVars, pc, loc>> /\ res'.writes = res.writes
     /\ \A w1 \in res'.writes, w2 \in res'.writes : w1.id = w2.id => w1 = w2]_vars

\* A resolveConflict call found the conflict resolved already.
ResolveRefused == \E x \in res.errors : \E c \in conflicts : c.id = x.id /\ c.status = "resolved"

\* C34: a delete change with data null and version 0, for an entity that the
\* receiver found and that has SyncMetadata, raises no conflict: the step that
\* runs detectConflict for it goes on to the deletion, never to flagConflict.
RemoteDeleteRaisesNoConflict ==
  [][\A p \in Procs :
       (/\ pc[p] \in {"ph_meta", "ac_meta"}
        /\ loc[p].op = "delete" /\ loc[p].d = Null /\ loc[p].v = 0
        /\ loc[p].le # Null
        /\ MetaRows(loc[p].e) # {}
        /\ pc'[p] # pc[p])
       => pc'[p] \in {"ph_write", "ac_write"}]_vars

\* A delete with data null and version 0 is about to be checked against an
\* entity that is there with its metadata.
RemoteDeleteChecked ==
  \E p \in Procs :
    /\ pc[p] = "ph_meta"
    /\ loc[p].op = "delete" /\ loc[p].d = Null /\ loc[p].v = 0
    /\ loc[p].le # Null
    /\ MetaRows(loc[p].e) # {}

\* C35: pushToMaster marks a pending row synced only if the operation and the
\* data it transmitted are the ones the row holds now.
MarkedSyncedAsTransmitted ==
  [][\A p \in Procs :
       (pc[p] = "push_mark" /\ <<pc[p], loc[p]>> # <<pc'[p], loc'[p]>>) =>
         LET r == MinRow(loc[p].snap) IN
         \A q \in queue :
           (q.id = r.id /\ q.status = "pending") =>
             /\ q.operation = r.operation
             /\ q.data = r.data]_vars

\* A push is about to mark a row that is still pending.
PushMarksPendingRow ==
  \E p \in Procs :
    /\ pc[p] = "push_mark"
    /\ \E q \in queue : q.id = MinRow(loc[p].snap).id /\ q.status = "pending"

\* C36: when pushToMaster returns after a response with processed = 0, no row
\* of its batch is left pending with the operation and data that were sent.
ZeroProcessedNotLeftPending ==
  [][\A p \in Procs :
       (/\ pc[p] = "push_apply" /\ loc[p].h = "push" /\ loc[p].n = 0
        /\ pc'[p] = "idle")
       => \A r \in loc[p].snap :
            ~\E q \in queue' : /\ q.id = r.id
                               /\ q.status = "pending"
                               /\ q.operation = r.operation
                               /\ q.data = r.data]_vars

\* A push was answered with processed = 0 and is about to return.
PushAnsweredZero ==
  \E p \in Procs : pc[p] = "push_apply" /\ loc[p].h = "push" /\ loc[p].n = 0

\* C37: at no time are two calls of syncService.push() running on the replica:
\* the one of executePush and the one of the reconnect callback.
OnePushInFlight == ~(push.exec = "pushing" /\ push.rpush = "pushing")

\* The reconnect callback is about to push while executePush holds isPushing.
ReconPushWhilePushing == push.isPushing /\ push.rpush = "pending" /\ push.pending > 0

\* C38: the drain publishes every entry of the master's queue at most once
\* and in the order of the queue, and an entry is marked sent only once the
\* drain has published it.
DrainedOnceInOrder ==
  /\ \A i, j \in DOMAIN wire.pubs : i < j => wire.pubs[i] < wire.pubs[j]
  /\ \A i \in DOMAIN wire.mq :
       wire.mq[i].status = "sent" => \E j \in DOMAIN wire.pubs : wire.pubs[j] = i

\* Two calls of masterAutoPushCheck are under way and hold the same entry.
DrainPassesOverlap ==
  \E i \in DOMAIN wire.mq :
    \A k \in DrainPasses : \E n \in DOMAIN wire.batch[k] : wire.batch[k][n] = i

\* min(floor(1.5 * d), 30000)
BackoffAfter(d) == IF (3 * d) \div 2 <= 30000 THEN (3 * d) \div 2 ELSE 30000

\* C39: in a retryConnection run at most maxRetries attempts are made, the
\* run is over at the first success, and the waits are d_1 = initialDelay
\* (2000 in the run of the bootstrap), d_(k+1) = min(floor(1.5 d_k), 30000):
\* they never decrease and never exceed 30 s.
RetryBackoffBounded ==
  [][/\ conn'.tries <= conn'.maxRetries
     /\ conn.st = "connected" => conn' = conn
     /\ LET w == conn'.waits IN
        /\ Len(w) < conn'.maxRetries
        /\ w # <<>> => w[1] = (IF conn'.bg THEN BackgroundDelay ELSE InitialDelay)
        /\ \A k \in DOMAIN w :
             /\ w[k] <= 30000
             /\ k > 1 => w[k] = BackoffAfter(w[k - 1]) /\ w[k] >= w[k - 1]]_vars

\* The run of the bootstrap made its last attempt after nine waits, the later
\* ones at the cap.
WaitedAtTheCap ==
  /\ ~conn.bg
  /\ conn.tries = MaxConnectRetries
  /\ Len(conn.waits) = MaxConnectRetries - 1
  /\ conn.waits[Len(conn.waits)] = MaxDelay

\* C40: when a retryConnection run has ended, by success, by exhausting its
\* attempts or by shutdown, no interval of its waits is scheduled any more.
NoPollLeftScheduled ==
  conn.st \in {"connected", "aborted", "exhausted", "bgwait"} => timers.polls = 0

\* The run connected after a wait.
ConnectedAfterWait == conn.st = "connected" /\ conn.waits # <<>>

====
